---- MODULE Spec2Model ----
(***************************************************************************)
(* Repo Guardian (src/tools/repo_guardian.py): the reactive triage         *)
(* pipeline TriageService.handle_workflow_run_completed, the GitHub REST   *)
(* adapter's issue operations and the Redis state store.                   *)
(*                                                                         *)
(* One handler invocation ("delivery") is a coroutine.  It is suspended    *)
(* exactly at its awaited port calls, so every action below is one port    *)
(* call together with the synchronous code that follows it up to the next  *)
(* await.  Several deliveries may be in flight at once.                    *)
(***************************************************************************)
EXTENDS Integers, Sequences, FiniteSets, TLC

\* ----------------------------------------------------------------------
\* Bounds
\* ----------------------------------------------------------------------
MaxDeliveries == 2      \* handler invocations per behaviour
MaxFaults == 1          \* port calls that raise per behaviour

Slots == 1..MaxDeliveries

\* ----------------------------------------------------------------------
\* Domain model
\* ----------------------------------------------------------------------
Conclusion ==
    {"success", "failure", "cancelled", "timed_out", "skipped", "neutral", "action_required"}

\* f"{self.conclusion}" of a (str, Enum) member: format() goes through
\* Enum.__str__ and yields "Conclusion.<MEMBER NAME>".
ConclusionFormat(c) ==
    CASE c = "success" -> "Conclusion.SUCCESS"
      [] c = "failure" -> "Conclusion.FAILURE"
      [] c = "cancelled" -> "Conclusion.CANCELLED"
      [] c = "timed_out" -> "Conclusion.TIMED_OUT"
      [] c = "skipped" -> "Conclusion.SKIPPED"
      [] c = "neutral" -> "Conclusion.NEUTRAL"
      [] c = "action_required" -> "Conclusion.ACTION_REQUIRED"

RunId(owner, repo, run_id) == [owner |-> owner, repo |-> repo, run_id |-> run_id]

\* RunId.__str__
RunIdStr(rid) == rid.owner \o "/" \o rid.repo \o "#" \o ToString(rid.run_id)

\* "{owner}/{repo}" as it appears in URLs, search queries and store keys
RepoName(owner, repo) == owner \o "/" \o repo

\* The 64-bit prefix of SHA-256 of the fingerprint contents that occur in
\* the model, as computed by hashlib.sha256(content.encode()).hexdigest()[:16].
Sha256Hex16(content) ==
    CASE content = "lint:Conclusion.SUCCESS:push:" -> "90f10e7e15078545"
      [] content = "lint:Conclusion.FAILURE:push:" -> "b53d9a7c06f86c31"
      [] content = "lint:Conclusion.CANCELLED:push:" -> "056212682b4bd3d0"
      [] content = "lint:Conclusion.TIMED_OUT:push:" -> "0068977fa0d319ac"
      [] content = "lint:Conclusion.SKIPPED:push:" -> "6cf7824e63a21a68"
      [] content = "lint:Conclusion.NEUTRAL:push:" -> "fbf48b68d709d1e9"
      [] content = "lint:Conclusion.ACTION_REQUIRED:push:" -> "2b007c852df13394"
      [] content = "lint:Conclusion.FAILURE:push:py3" -> "98bd7acce0cce59d"
      [] content = "lint:Conclusion.FAILURE:push::" -> "8abb9eb21953fd33"
      [] content = "lint:Conclusion.FAILURE:push::py3" -> "bb202c5c0a8361ba"
      [] content = "lint:Conclusion.FAILURE:push:::" -> "a557b14acc4aa81d"
      [] content = "lint:Conclusion.TIMED_OUT:push:py3" -> "9d784ab4aba8ec5f"
      [] content = "lint:Conclusion.TIMED_OUT:push::" -> "52fb62eb6aaaf00d"
      [] content = "lint:Conclusion.TIMED_OUT:push::py3" -> "537a19e5a7c342d5"
      [] content = "lint:Conclusion.TIMED_OUT:push:::" -> "846a442561d13779"
      [] content = "lint:e2e:Conclusion.FAILURE:push:" -> "15b127555942cfa2"
      [] content = "lint:e2e:Conclusion.FAILURE:push:py3" -> "eaa7137605c306c5"
      [] content = "lint:e2e:Conclusion.FAILURE:push::" -> "0301b42bc0482520"
      [] content = "lint:e2e:Conclusion.FAILURE:push::py3" -> "fd113548247695dc"
      [] content = "lint:e2e:Conclusion.FAILURE:push:::" -> "f255f7d742933eb7"
      [] content = "lint:e2e:Conclusion.TIMED_OUT:push:" -> "efa9c9f70b1dc297"
      [] content = "lint:e2e:Conclusion.TIMED_OUT:push:py3" -> "de9fc215f51aac25"
      [] content = "lint:e2e:Conclusion.TIMED_OUT:push::" -> "08f09220468404a3"
      [] content = "lint:e2e:Conclusion.TIMED_OUT:push::py3" -> "8be5fdaf0630284f"
      [] content = "lint:e2e:Conclusion.TIMED_OUT:push:::" -> "c679f37c87d5c62d"

\* matrix_key or ''
OrEmpty(s) == IF s = "None" THEN "" ELSE s

FailureFingerprint(workflow_name, conclusion, event, matrix_key) ==
    [workflow_name |-> workflow_name, conclusion |-> conclusion,
     event |-> event, matrix_key |-> matrix_key]

\* FailureFingerprint.hash
FingerprintContent(fp) ==
    fp.workflow_name \o ":" \o ConclusionFormat(fp.conclusion) \o ":" \o fp.event
        \o ":" \o OrEmpty(fp.matrix_key)

FingerprintHash(fp) == Sha256Hex16(FingerprintContent(fp))

\* WorkflowRun.fingerprint: the matrix key is always unset
fingerprint(run) == FailureFingerprint(run.name, run.conclusion, run.event, "None")

\* is_failure as it would be if every conclusion but success counted as a failure
is_failure_NotSuccess(run) == run.conclusion # "success"

\* WorkflowRun.is_failure
is_failure(run) == run.conclusion \in {"failure", "timed_out", "cancelled"}

\* ----------------------------------------------------------------------
\* Configuration (GuardianConfig defaults)
\* ----------------------------------------------------------------------
issue_prefix == "[Repo Guardian] "
autofix_confidence_threshold == 90      \* 0.9, confidences in percent

\* generate_issue: the title of the TriageIssue
IssueTitle(run, fingerprint_hash) ==
    issue_prefix \o "CI Failure: " \o run.name \o " [" \o SubSeq(fingerprint_hash, 1, 8) \o "]"

\* ----------------------------------------------------------------------
\* The GitHub side: completed workflow runs that webhooks may announce
\* ----------------------------------------------------------------------
WorkflowRunData(name, conclusion, event, logs_url) ==
    [name |-> name, conclusion |-> conclusion, event |-> event, logs_url |-> logs_url]

KnownRuns ==
    {RunId("acme", "api", n) : n \in 1..8} \cup {RunId("acme", "web", 1)}

\* what GET /repos/{owner}/{repo}/actions/runs/{run_id} answers
GitHubRun(rid) ==
    CASE rid = RunId("acme", "api", 1) -> WorkflowRunData("lint", "failure", "push", "logs")
      [] rid = RunId("acme", "api", 2) -> WorkflowRunData("lint", "failure", "push", "None")
      [] rid = RunId("acme", "api", 3) -> WorkflowRunData("lint", "success", "push", "None")
      [] rid = RunId("acme", "api", 4) -> WorkflowRunData("lint", "timed_out", "push", "None")
      [] rid = RunId("acme", "api", 5) -> WorkflowRunData("lint", "cancelled", "push", "None")
      [] rid = RunId("acme", "api", 6) -> WorkflowRunData("lint", "skipped", "push", "None")
      [] rid = RunId("acme", "api", 7) -> WorkflowRunData("lint", "neutral", "push", "None")
      [] rid = RunId("acme", "api", 8) -> WorkflowRunData("lint", "action_required", "push", "None")
      [] rid = RunId("acme", "web", 1) -> WorkflowRunData("lint", "failure", "push", "None")

Repos == {RepoName(rid.owner, rid.repo) : rid \in KnownRuns}

\* ----------------------------------------------------------------------
\* State
\* ----------------------------------------------------------------------
VARIABLES
    inv,        \* inv[d]: the handler invocation of delivery d (its locals and position)
    redis,      \* RedisStateStore: key -> value
    issues,     \* GitHub: repository name -> its issues, issues[r][n] is issue number n
    faults,     \* port calls that have raised so far
    config,     \* GuardianConfig of the TriageService
    remediations, \* TriageService.remediations: its strategies, in registration order
    calc,       \* the call of a pure function under examination: arguments, results
    angel       \* GuardianAngel: the checkup in progress and what GitHub holds for it

vars == <<inv, redis, issues, faults, config, remediations, calc, angel>>

\* the strategy classes of the module.  Any other strategy is one the caller of
\* TriageService(...) wrote: an implementation of RemediationStrategy whose two
\* methods await a service of its own.
ModuleStrategies == {"FormatRemediation", "LLMRemediation"}

\* create_app: remediations=[FormatRemediation()]
AppRemediations == <<"FormatRemediation">>

\* logs = ""  (the fetch of run.logs_url is commented out)
logs == ""

NoRunId == RunId("", "", 0)

\* the webhook request of an invocation; none when the handler is called directly
NoRequest == [body |-> "", x_github_event |-> "", x_hub_signature_256 |-> ""]

IdleInvocation ==
    [pc |-> "idle", payload |-> NoRunId, existing |-> 0, issue_number |-> 0,
     idx |-> 1, remediation |-> FALSE, outcome |-> "", trace |-> <<>>, after |-> {},
     failed |-> {}, attempt |-> 1, answers |-> <<>>, request |-> NoRequest]

\* one call in which the handler was suspended, as recorded in the
\* invocation's trace (a strategy of the module answers without suspending
\* the handler; its answer is recorded in answers only): its name, the
\* number it returned or wrote (is_processed: 1 for true; find_existing_issue:
\* the issue found, 0 for None; POST/PATCH/link: the issue number; strategy
\* calls: the strategy's index) and whether it returned rather than raised
Call(name, num, ok) == [call |-> name, num |-> num, ok |-> ok]

\* OperationId as it would be if the operation id were the bare run id
OperationId_RunIdOnly(rid) == "run:" \o ToString(rid.run_id)

\* f"run:{run_id}"
OperationId(rid) == "run:" \o RunIdStr(rid)

\* RedisStateStore keys
OpKey(operation_id) == "op:" \o operation_id
FpKey(owner, repo, fingerprint_hash) ==
    "fp:" \o owner \o "/" \o repo \o ":" \o fingerprint_hash

\* r.setex(key, ttl, value)
Setex(store, key, value) == (key :> value) @@ store

\* is_processed as it would be if it looked the operation id up without the
\* "op:" prefix under which mark_processed stores it
is_processed_WrongKey(store, operation_id) == operation_id \in DOMAIN store

\* r.exists(key) > 0
is_processed(store, operation_id) == OpKey(operation_id) \in DOMAIN store

\* mark_processed
mark_processed(store, operation_id, result) == Setex(store, OpKey(operation_id), result)

\* link_fingerprint_to_issue: the number is stored as str(issue_number)
link_fingerprint_to_issue(store, owner, repo, fingerprint_hash, issue_number) ==
    Setex(store, FpKey(owner, repo, fingerprint_hash), ToString(issue_number))

\* int(val) of a decimal string
DigitValue(c) ==
    CASE c = "0" -> 0 [] c = "1" -> 1 [] c = "2" -> 2 [] c = "3" -> 3 [] c = "4" -> 4
      [] c = "5" -> 5 [] c = "6" -> 6 [] c = "7" -> 7 [] c = "8" -> 8 [] c = "9" -> 9

RECURSIVE ParseInt(_)
ParseInt(val) ==
    IF Len(val) = 1
    THEN DigitValue(val)
    ELSE ParseInt(SubSeq(val, 1, Len(val) - 1)) * 10 + DigitValue(SubSeq(val, Len(val), Len(val)))

\* get_issue_for_fingerprint: int(val) if val else None; None is 0 here
\* (GitHub numbers issues from 1)
get_issue_for_fingerprint(store, owner, repo, fingerprint_hash) ==
    LET key == FpKey(owner, repo, fingerprint_hash) IN
    IF key \in DOMAIN store /\ store[key] # ""
    THEN ParseInt(store[key])
    ELSE 0

\* title contains term
Contains(title, term) ==
    \E i \in 1..(Len(title) - Len(term) + 1) : SubSeq(title, i, i + Len(term) - 1) = term

\* GET /search/issues?q=repo:{owner}/{repo} is:issue in:title {hash_str}
\* the numbers of the issues the query matches
SearchIssues(store, owner, repo, hash_str) ==
    LET r == RepoName(owner, repo) IN
    IF r \in DOMAIN store
    THEN {n \in 1..Len(store[r]) : Contains(store[r][n].title, hash_str)}
    ELSE {}

Issue(title, state, by) == [title |-> title, state |-> state, by |-> by, updates |-> 0]

\* an issue somebody filed by hand, quoting the failure signature of the
\* failing lint run in its title; by now it may have been closed
ForeignIssue ==
    Issue("lint is red, signature "
            \o FingerprintHash(fingerprint(GitHubRun(RunId("acme", "api", 1)))),
          "open", 0)

\* no pure function is under examination
NoCalc == [fn |-> "none"]

\* no GuardianAngel has been constructed
NoCheckup == [pc |-> "none"]

RunOf(d) == GitHubRun(inv[d].payload)
FpOf(d) == fingerprint(RunOf(d))
RepoOf(d) == RepoName(inv[d].payload.owner, inv[d].payload.repo)

Init ==
    /\ inv = [d \in Slots |-> IdleInvocation]
    /\ redis = <<>>
    /\ \E pre \in {<<>>, <<ForeignIssue>>, <<[ForeignIssue EXCEPT !.state = "closed"]>>} :
         issues = [r \in Repos |-> IF r = RepoName("acme", "api") THEN pre ELSE <<>>]
    /\ faults = 0
    /\ \E autofix_enabled \in BOOLEAN : config = [autofix_enabled |-> autofix_enabled]
    /\ remediations = AppRemediations
    /\ calc = NoCalc
    /\ angel = NoCheckup

\* ----------------------------------------------------------------------
\* TriageService.handle_workflow_run_completed, one action per awaited call
\* ----------------------------------------------------------------------
Record(d, call) == Append(inv[d].trace, call)

\* A webhook delivery arrives and the handler is entered with its payload,
\* whether or not other invocations are suspended in a call.  The invocation
\* remembers which invocations had returned (after) and which had raised
\* (failed) when it was entered.
Deliver(d, rid) ==
    /\ inv[d].pc = "idle"
    /\ \A e \in Slots : e < d => inv[e].pc # "idle"
    /\ inv' = [inv EXCEPT ![d] =
                 [IdleInvocation EXCEPT !.pc = "is_processed", !.payload = rid,
                                        !.after = {e \in Slots : inv[e].pc = "done"},
                                        !.failed = {e \in Slots : inv[e].pc = "error"}]]
    /\ UNCHANGED <<redis, issues, faults, config, remediations, calc, angel>>

\* IsProcessed as it would be without the return: the skip is logged and the
\* handler goes on to fetch the run
IsProcessed_NoReturn(d) ==
    /\ inv[d].pc = "is_processed"
    /\ inv' = [inv EXCEPT ![d] =
                 [@ EXCEPT !.pc = "get_workflow_run",
                           !.trace = Record(d, Call("is_processed",
                                  IF is_processed(redis, OperationId(inv[d].payload))
                                  THEN 1 ELSE 0, TRUE))]]
    /\ UNCHANGED <<redis, issues, faults, config, remediations, calc, angel>>

\* if await self.state.is_processed(operation_id): return
IsProcessed(d) ==
    /\ inv[d].pc = "is_processed"
    /\ inv' = [inv EXCEPT ![d] =
                 IF is_processed(redis, OperationId(inv[d].payload))
                 THEN [@ EXCEPT !.pc = "done", !.outcome = "skipped",
                                !.trace = Record(d, Call("is_processed", 1, TRUE))]
                 ELSE [@ EXCEPT !.pc = "get_workflow_run",
                                !.trace = Record(d, Call("is_processed", 0, TRUE))]]
    /\ UNCHANGED <<redis, issues, faults, config, remediations, calc, angel>>

\* GetWorkflowRun as it would be if the handler recorded the operation as
\* processed as soon as the run is known to have failed, before the issue write
GetWorkflowRun_MarksEarly(d) ==
    /\ inv[d].pc = "get_workflow_run"
    /\ redis' = IF is_failure(RunOf(d))
                THEN mark_processed(redis, OperationId(inv[d].payload), [action |-> "triaged"])
                ELSE redis
    /\ inv' = [inv EXCEPT ![d] =
                 [@ EXCEPT !.pc = IF is_failure(RunOf(d)) THEN "find_existing_issue"
                                  ELSE "mark_success",
                           !.trace = IF is_failure(RunOf(d))
                                     THEN Append(Record(d, Call("get_workflow_run", 0, TRUE)),
                                                 Call("mark_processed", 0, TRUE))
                                     ELSE Record(d, Call("get_workflow_run", 0, TRUE))]]
    /\ UNCHANGED <<issues, faults, config, remediations, calc, angel>>

\* run = await self.github.get_workflow_run(run_id); if not run.is_failure(): ...
GetWorkflowRun(d) ==
    /\ inv[d].pc = "get_workflow_run"
    /\ inv' = [inv EXCEPT ![d] =
                 [@ EXCEPT !.pc = IF is_failure(RunOf(d)) THEN "find_existing_issue"
                                  ELSE "mark_success",
                           !.trace = Record(d, Call("get_workflow_run", 0, TRUE))]]
    /\ UNCHANGED <<redis, issues, faults, config, remediations, calc, angel>>

\* MarkSuccess as it would be if the success branch returned without
\* recording the operation
MarkSuccess_NoMark(d) ==
    /\ inv[d].pc = "mark_success"
    /\ inv' = [inv EXCEPT ![d] = [@ EXCEPT !.pc = "done", !.outcome = "success"]]
    /\ UNCHANGED <<redis, issues, faults, config, remediations, calc, angel>>

\* await self.state.mark_processed(operation_id, {"action": "none", "reason": "success"})
MarkSuccess(d) ==
    /\ inv[d].pc = "mark_success"
    /\ redis' = mark_processed(redis, OperationId(inv[d].payload),
                               [action |-> "none", reason |-> "success"])
    /\ inv' = [inv EXCEPT ![d] =
                 [@ EXCEPT !.pc = "done", !.outcome = "success",
                           !.trace = Record(d, Call("mark_processed", 0, TRUE))]]
    /\ UNCHANGED <<issues, faults, config, remediations, calc, angel>>

\* create_or_update_issue, first await: existing = await self.find_existing_issue(...)
\* items[0] of the search result; the order of the items is GitHub's
FindExistingIssue(d) ==
    /\ inv[d].pc = "find_existing_issue"
    /\ LET items == SearchIssues(issues, inv[d].payload.owner, inv[d].payload.repo,
                                 FingerprintHash(FpOf(d)))
       IN \E found \in (IF items = {} THEN {0} ELSE items) :
            inv' = [inv EXCEPT ![d] =
                      [@ EXCEPT !.pc = "issue_write", !.existing = found,
                                !.trace = Record(d, Call("find_existing_issue", found, TRUE))]]
    /\ UNCHANGED <<redis, issues, faults, config, remediations, calc, angel>>

\* create_or_update_issue, if existing: client.patch(.../issues/{issue_number}, json=payload)
PatchIssue(d) ==
    /\ inv[d].pc = "issue_write"
    /\ inv[d].existing # 0
    /\ LET n == inv[d].existing IN
       /\ issues' = [issues EXCEPT ![RepoOf(d)][n] =
                       [@ EXCEPT !.title = IssueTitle(RunOf(d), FingerprintHash(FpOf(d))),
                                 !.updates = @ + 1]]
       /\ inv' = [inv EXCEPT ![d] =
                    [@ EXCEPT !.pc = "link_fingerprint_to_issue", !.issue_number = n,
                              !.trace = Record(d, Call("PATCH", n, TRUE))]]
    /\ UNCHANGED <<redis, faults, config, remediations, calc, angel>>

\* PostIssue as it would be if the handler went from a created issue
\* straight to the ledger write
PostIssue_SkipsLink(d) ==
    /\ inv[d].pc = "issue_write"
    /\ inv[d].existing = 0
    /\ LET n == Len(issues[RepoOf(d)]) + 1 IN
       /\ issues' = [issues EXCEPT ![RepoOf(d)] =
                       Append(@, Issue(IssueTitle(RunOf(d), FingerprintHash(FpOf(d))),
                                       "open", d))]
       /\ inv' = [inv EXCEPT ![d] =
                    [@ EXCEPT !.pc = "mark_processed", !.issue_number = n,
                              !.trace = Record(d, Call("POST", n, TRUE))]]
    /\ UNCHANGED <<redis, faults, config, remediations, calc, angel>>

\* PostIssue as it would be if the POST were not in the else branch
PostIssue_Unconditional(d) ==
    /\ inv[d].pc = "issue_write"
    /\ LET n == Len(issues[RepoOf(d)]) + 1 IN
       /\ issues' = [issues EXCEPT ![RepoOf(d)] =
                       Append(@, Issue(IssueTitle(RunOf(d), FingerprintHash(FpOf(d))),
                                       "open", d))]
       /\ inv' = [inv EXCEPT ![d] =
                    [@ EXCEPT !.pc = "link_fingerprint_to_issue", !.issue_number = n,
                              !.trace = Record(d, Call("POST", n, TRUE))]]
    /\ UNCHANGED <<redis, faults, config, remediations, calc, angel>>

\* create_or_update_issue, else: client.post(.../issues, json=payload)
PostIssue(d) ==
    /\ inv[d].pc = "issue_write"
    /\ inv[d].existing = 0
    /\ LET n == Len(issues[RepoOf(d)]) + 1 IN
       /\ issues' = [issues EXCEPT ![RepoOf(d)] =
                       Append(@, Issue(IssueTitle(RunOf(d), FingerprintHash(FpOf(d))),
                                       "open", d))]
       /\ inv' = [inv EXCEPT ![d] =
                    [@ EXCEPT !.pc = "link_fingerprint_to_issue", !.issue_number = n,
                              !.trace = Record(d, Call("POST", n, TRUE))]]
    /\ UNCHANGED <<redis, faults, config, remediations, calc, angel>>

\* what strategy number idx answered: can_remediate, and the confidence of the
\* fix of generate_fix (-1: None, or generate_fix was not called)
Answer(idx, can, confidence) == [strategy |-> idx, can |-> can, confidence |-> confidence]

\* can_remediate of the module's strategies: a test of the logs, no await inside
can_remediate(strategy, text) ==
    CASE strategy = "FormatRemediation" ->
           Contains(text, "black --check") \/ Contains(text, "ruff format --check")
      [] strategy = "LLMRemediation" -> Contains(text, "FAILED") /\ Contains(text, "Error:")

\* generate_fix of the module's strategies: the confidence of the result in
\* percent, -1 for None; no await inside
generate_fix(strategy) ==
    CASE strategy = "FormatRemediation" -> 95
      [] strategy = "LLMRemediation" -> -1

\* `for strategy in self.remediations` from strategy number k on, as far as
\* the handler runs without being suspended: a strategy of the module is
\* consulted on the spot, at any other strategy the handler is suspended in
\* its can_remediate, and after the last one _attempt_remediation returns None
\* and the handler goes on to mark_processed
RECURSIVE AttemptRemediation(_, _)
AttemptRemediation(s, k) ==
    IF k > Len(remediations)
    THEN [s EXCEPT !.pc = "mark_processed"]
    ELSE LET strategy == remediations[k]
             t == [s EXCEPT !.idx = k]
         IN  IF strategy \notin ModuleStrategies
             THEN [t EXCEPT !.pc = "can_remediate"]
             ELSE IF ~can_remediate(strategy, logs)
                  THEN AttemptRemediation(
                         [t EXCEPT !.answers = Append(@, Answer(k, FALSE, -1))], k + 1)
                  ELSE LET confidence == generate_fix(strategy)
                           u == [t EXCEPT !.answers = Append(@, Answer(k, TRUE, confidence))]
                       IN  IF confidence >= 0 /\ confidence >= autofix_confidence_threshold
                           THEN [u EXCEPT !.pc = "mark_processed", !.remediation = TRUE]
                           ELSE AttemptRemediation(u, k + 1)

\* where the handler continues after a strategy has been skipped
NextStrategy(s) == AttemptRemediation(s, s.idx + 1)

\* LinkFingerprint as it would be if _attempt_remediation were entered
\* whether or not autofix is enabled
LinkFingerprint_NoGate(d) ==
    /\ inv[d].pc = "link_fingerprint_to_issue"
    /\ redis' = link_fingerprint_to_issue(redis, inv[d].payload.owner, inv[d].payload.repo,
                                          FingerprintHash(FpOf(d)), inv[d].issue_number)
    /\ LET s == [inv[d] EXCEPT !.idx = 1,
                               !.trace = Record(d, Call("link_fingerprint_to_issue",
                                                        inv[d].issue_number, TRUE))]
       IN  inv' = [inv EXCEPT ![d] =
                     IF RunOf(d).logs_url # "None"
                     THEN AttemptRemediation(s, 1)
                     ELSE [s EXCEPT !.pc = "mark_processed"]]
    /\ UNCHANGED <<issues, faults, config, remediations, calc, angel>>

\* await self.state.link_fingerprint_to_issue(...), then the autofix gate and
\* _attempt_remediation up to its first suspension
LinkFingerprint(d) ==
    /\ inv[d].pc = "link_fingerprint_to_issue"
    /\ redis' = link_fingerprint_to_issue(redis, inv[d].payload.owner, inv[d].payload.repo,
                                          FingerprintHash(FpOf(d)), inv[d].issue_number)
    /\ LET s == [inv[d] EXCEPT !.idx = 1,
                               !.trace = Record(d, Call("link_fingerprint_to_issue",
                                                        inv[d].issue_number, TRUE))]
       IN  inv' = [inv EXCEPT ![d] =
                     IF config.autofix_enabled /\ RunOf(d).logs_url # "None"
                     THEN AttemptRemediation(s, 1)
                     ELSE [s EXCEPT !.pc = "mark_processed"]]
    /\ UNCHANGED <<issues, faults, config, remediations, calc, angel>>

\* if await strategy.can_remediate(run, logs), of a strategy the caller
\* supplied; on False the loop goes on to its next suspension
CanRemediate(d, answer) ==
    /\ inv[d].pc = "can_remediate"
    /\ LET s == [inv[d] EXCEPT !.trace = Record(d, Call("can_remediate", inv[d].idx, TRUE))]
       IN inv' = [inv EXCEPT ![d] =
                    IF answer THEN [s EXCEPT !.pc = "generate_fix"]
                    ELSE NextStrategy([s EXCEPT !.answers =
                                         Append(@, Answer(inv[d].idx, FALSE, -1))])]
    /\ UNCHANGED <<redis, issues, faults, config, remediations, calc, angel>>

\* GenerateFix as it would be if a fix had to exceed the threshold
GenerateFix_Strict(d, confidence) ==
    /\ inv[d].pc = "generate_fix"
    /\ LET s == [inv[d] EXCEPT !.trace = Record(d, Call("generate_fix", inv[d].idx, TRUE)),
                               !.answers = Append(@, Answer(inv[d].idx, TRUE, confidence))]
       IN inv' = [inv EXCEPT ![d] =
                    IF confidence >= 0 /\ confidence > autofix_confidence_threshold
                    THEN [s EXCEPT !.pc = "mark_processed", !.remediation = TRUE]
                    ELSE NextStrategy(s)]
    /\ UNCHANGED <<redis, issues, faults, config, remediations, calc, angel>>

\* result = await strategy.generate_fix(run, logs, self.github); confidence < 0 is None
GenerateFix(d, confidence) ==
    /\ inv[d].pc = "generate_fix"
    /\ LET s == [inv[d] EXCEPT !.trace = Record(d, Call("generate_fix", inv[d].idx, TRUE)),
                               !.answers = Append(@, Answer(inv[d].idx, TRUE, confidence))]
       IN inv' = [inv EXCEPT ![d] =
                    IF confidence >= 0 /\ confidence >= autofix_confidence_threshold
                    THEN [s EXCEPT !.pc = "mark_processed", !.remediation = TRUE]
                    ELSE NextStrategy(s)]
    /\ UNCHANGED <<redis, issues, faults, config, remediations, calc, angel>>

\* await self.state.mark_processed(operation_id, {"action": "triaged", ...})
MarkProcessed(d) ==
    /\ inv[d].pc = "mark_processed"
    /\ redis' = mark_processed(redis, OperationId(inv[d].payload),
                               [action |-> "triaged", issue_number |-> inv[d].issue_number,
                                remediation |-> inv[d].remediation])
    /\ inv' = [inv EXCEPT ![d] =
                 [@ EXCEPT !.pc = "done", !.outcome = "triaged",
                           !.trace = Record(d, Call("mark_processed", 0, TRUE))]]
    /\ UNCHANGED <<issues, faults, config, remediations, calc, angel>>

\* the positions at which the handler is suspended in a port call
AwaitPcs ==
    {"is_processed", "get_workflow_run", "mark_success", "find_existing_issue",
     "issue_write", "link_fingerprint_to_issue", "can_remediate", "generate_fix",
     "mark_processed"}

\* the port call the handler is suspended in
CallAt(s) ==
    CASE s.pc = "mark_success" -> "mark_processed"
      [] s.pc = "issue_write" -> IF s.existing # 0 THEN "PATCH" ELSE "POST"
      [] OTHER -> s.pc

\* PortRaises as it would be if the handler marked the operation processed
\* in a finally clause
PortRaises_MarksProcessed(d) ==
    /\ inv[d].pc \in AwaitPcs
    /\ faults < MaxFaults
    /\ faults' = faults + 1
    /\ redis' = mark_processed(redis, OperationId(inv[d].payload), [action |-> "error"])
    /\ inv' = [inv EXCEPT ![d] =
                 [@ EXCEPT !.pc = "error", !.outcome = "raised",
                           !.trace = Record(d, Call(CallAt(inv[d]), 0, FALSE))]]
    /\ UNCHANGED <<issues, config, remediations, calc, angel>>

\* The awaited call raises (timeout, raise_for_status on 4xx/5xx, store error):
\* the exception propagates out of the handler, nothing is caught.
PortRaises(d) ==
    /\ inv[d].pc \in AwaitPcs
    /\ faults < MaxFaults
    /\ faults' = faults + 1
    /\ inv' = [inv EXCEPT ![d] =
                 [@ EXCEPT !.pc = "error", !.outcome = "raised",
                           !.trace = Record(d, Call(CallAt(inv[d]), 0, FALSE))]]
    /\ UNCHANGED <<redis, issues, config, remediations, calc, angel>>

\* what generate_fix may answer: None (-1) or a fix with this confidence (percent)
FixResults == {-1, 89, 90}

\* one step of the handler invocation of delivery d in the application
\* create_app builds: its one strategy never suspends the handler
Handle(d) ==
    \/ IsProcessed(d)
    \/ GetWorkflowRun(d)
    \/ MarkSuccess(d)
    \/ FindExistingIssue(d)
    \/ PatchIssue(d)
    \/ PostIssue(d)
    \/ LinkFingerprint(d)
    \/ MarkProcessed(d)
    \/ PortRaises(d)

\* Deliveries are handled concurrently: a delivery may arrive at any time.
Next ==
    \/ \E d \in Slots, rid \in KnownRuns : Deliver(d, rid)
    \/ \E d \in Slots : Handle(d)

Spec == Init /\ [][Next]_vars

\* the invocation is suspended in a call
InFlight(d) == inv[d].pc \in AwaitPcs

\* The events delivered to a service constructed by a caller: a failing run
\* with logs, a failing run without, a run with the same failure signature in
\* another repository, and a succeeded run; a delivery may arrive at any time.
TriageRuns ==
    {RunId("acme", "api", 1), RunId("acme", "api", 2), RunId("acme", "api", 3),
     RunId("acme", "web", 1)}

\* TriageService(github, state, remediations, config, logger) constructed by
\* a caller of its own: with the list create_app passes, with both strategies
\* of the module, or with two strategies of the caller
StrategyLists ==
    {AppRemediations, <<"FormatRemediation", "LLMRemediation">>, <<"first", "second">>}

InitTriage ==
    /\ inv = [d \in Slots |-> IdleInvocation]
    /\ redis = <<>>
    /\ \E pre \in {<<>>, <<ForeignIssue>>, <<[ForeignIssue EXCEPT !.state = "closed"]>>} :
         issues = [r \in Repos |-> IF r = RepoName("acme", "api") THEN pre ELSE <<>>]
    /\ faults = 0
    /\ \E autofix_enabled \in BOOLEAN : config = [autofix_enabled |-> autofix_enabled]
    /\ \E strategies \in StrategyLists : remediations = strategies
    /\ calc = NoCalc
    /\ angel = NoCheckup

\* one step of a handler invocation of such a service
HandleTriage(d) ==
    \/ Handle(d)
    \/ \E answer \in BOOLEAN : CanRemediate(d, answer)
    \/ \E confidence \in FixResults : GenerateFix(d, confidence)

NextTriage ==
    \/ \E d \in Slots, rid \in TriageRuns : Deliver(d, rid)
    \/ \E d \in Slots : HandleTriage(d)

SpecTriage == InitTriage /\ [][NextTriage]_vars

\* At-least-once delivery: the webhook request of an invocation that raised
\* has failed, and GitHub delivers the same event again.
Redeliver(d) ==
    /\ inv[d].pc = "error"
    /\ inv' = [inv EXCEPT ![d] =
                 [IdleInvocation EXCEPT !.pc = "is_processed", !.payload = inv[d].payload,
                                        !.after = {e \in Slots : inv[e].pc = "done"},
                                        !.failed = {e \in Slots : inv[e].pc = "error"},
                                        !.attempt = inv[d].attempt + 1]]
    /\ UNCHANGED <<redis, issues, faults, config, remediations, calc, angel>>

\* the steps of the handler in which the awaited call returns
Proceed(d) ==
    \/ IsProcessed(d)
    \/ GetWorkflowRun(d)
    \/ MarkSuccess(d)
    \/ FindExistingIssue(d)
    \/ PatchIssue(d)
    \/ PostIssue(d)
    \/ LinkFingerprint(d)
    \/ MarkProcessed(d)

\* the events delivered in the liveness scenario: a failing run (with logs, so
\* that the strategy is consulted when autofix is enabled) and a succeeded run
LiveRuns == {RunId("acme", "api", 1), RunId("acme", "api", 3)}

NextLive ==
    \/ \E d \in Slots, rid \in LiveRuns : Deliver(d, rid)
    \/ \E d \in Slots : Handle(d)
    \/ \E d \in Slots : Redeliver(d)

\* Every awaited call eventually returns or raises, at most MaxFaults calls
\* raise (the ports eventually stop failing), and every delivery whose
\* handling raised is eventually delivered again.
SpecLive ==
    /\ Init
    /\ [][NextLive]_vars
    /\ \A d \in Slots : WF_vars(Proceed(d))
    /\ \A d \in Slots : WF_vars(Redeliver(d))

\* ----------------------------------------------------------------------
\* create_app.webhook: POST /webhook
\* ----------------------------------------------------------------------
\* os.environ["WEBHOOK_SECRET"], and a secret somebody else signs with
WEBHOOK_SECRET == "s3cret"
OtherSecret == "guess"

\* raw request bodies: workflow_run completed for acme/api run 1 (failed),
\* workflow_run requested for the same run, a ping, and workflow_run
\* completed for acme/api run 3 (succeeded)
BodyCompleted1 ==
    "{\"action\":\"completed\",\"repository\":{\"name\":\"api\",\"owner\":{\"login\":\"acme\"}},\"workflow_run\":{\"id\":1}}"
BodyRequested1 ==
    "{\"action\":\"requested\",\"repository\":{\"name\":\"api\",\"owner\":{\"login\":\"acme\"}},\"workflow_run\":{\"id\":1}}"
BodyPing ==
    "{\"zen\":\"Keep it logically awesome.\"}"
BodyCompleted3 ==
    "{\"action\":\"completed\",\"repository\":{\"name\":\"api\",\"owner\":{\"login\":\"acme\"}},\"workflow_run\":{\"id\":3}}"

Bodies == {BodyCompleted1, BodyRequested1, BodyPing, BodyCompleted3}

\* json.loads(body), as far as the endpoint and the handler read it:
\* payload.get("action") ("None" when absent) and the run the payload names
json_loads(body) ==
    CASE body = BodyCompleted1 -> [action |-> "completed", run_id |-> RunId("acme", "api", 1)]
      [] body = BodyRequested1 -> [action |-> "requested", run_id |-> RunId("acme", "api", 1)]
      [] body = BodyPing -> [action |-> "None", run_id |-> NoRunId]
      [] body = BodyCompleted3 -> [action |-> "completed", run_id |-> RunId("acme", "api", 3)]

\* hmac.new(secret.encode(), body, hashlib.sha256).hexdigest()
HmacSha256Hex(secret, body) ==
    CASE secret = WEBHOOK_SECRET /\ body = BodyCompleted1 ->
           "00eccb17c405fdda7288d3c088e42ccf2442ff6342bfe817ca8d79dd0e7c671c"
      [] secret = WEBHOOK_SECRET /\ body = BodyRequested1 ->
           "88e48b7efd75062ab5dc09ee0311861526fb34dd903866c6eca7a15c46d402bb"
      [] secret = WEBHOOK_SECRET /\ body = BodyPing ->
           "bcf4aa51133ef9ab7d02f9da6e30ed7529389095a3c94d76a76608dfd05e2c49"
      [] secret = WEBHOOK_SECRET /\ body = BodyCompleted3 ->
           "bbbf98dfa9cdd85d2e2b3c253d1f71a2e261d5b93d40715966e06fbce6e867ca"
      [] secret = OtherSecret /\ body = BodyCompleted1 ->
           "a6d4a0524b50314a2e4d81960ddfee979bce2cf7d9317e4d2b1b011c6ef6fedb"
      [] secret = OtherSecret /\ body = BodyRequested1 ->
           "22405872c2849aaac3b03d31339cb967c29b669be9ba80a27504bd083376d1b9"
      [] secret = OtherSecret /\ body = BodyPing ->
           "3897e6f8427694523cd77f882ae01812032861618d7158a2dad581ea24f5c2fb"
      [] secret = OtherSecret /\ body = BodyCompleted3 ->
           "e85e15ceeee0e83b0b617f215f5147aae4d66f1f64a6ea22d7df39951ddf14b1"

\* a header value with a character outside ASCII; <e9> stands for the one
\* character U+00E9
NonAsciiSignature == "sha256=caf<e9>"

IsAscii(s) == ~Contains(s, "<e9>")

\* hmac.compare_digest(a, b) on str arguments raises TypeError unless both
\* are ASCII
compare_digest_raises(a, b) == ~IsAscii(a) \/ ~IsAscii(b)

compare_digest(a, b) == a = b

\* "sha256=" + hmac.new(secret.encode(), body, hashlib.sha256).hexdigest()
ExpectedSignature(body, secret) == "sha256=" \o HmacSha256Hex(secret, body)

\* whether verify_signature raises instead of returning
verify_signature_raises(body, signature, secret) ==
    /\ signature # "None"
    /\ compare_digest_raises(ExpectedSignature(body, secret), signature)

\* verify_signature; a missing header is "None"
verify_signature(body, signature, secret) ==
    IF signature = "None"
    THEN FALSE
    ELSE compare_digest(ExpectedSignature(body, secret), signature)

\* the X-Hub-Signature-256 headers a request with this body may carry: none,
\* the right one, the right one of another body, the digest without its
\* prefix, one made with another secret, one that is not ASCII
SignaturesFor(body) ==
    {"None",
     ExpectedSignature(body, WEBHOOK_SECRET),
     ExpectedSignature(IF body = BodyPing THEN BodyCompleted1 ELSE BodyPing, WEBHOOK_SECRET),
     HmacSha256Hex(WEBHOOK_SECRET, body),
     ExpectedSignature(body, OtherSecret),
     NonAsciiSignature}

Events == {"workflow_run", "push"}

Request(body, x_github_event, x_hub_signature_256) ==
    [body |-> body, x_github_event |-> x_github_event,
     x_hub_signature_256 |-> x_hub_signature_256]

Requests ==
    UNION {{Request(body, event, signature) :
                event \in Events, signature \in SignaturesFor(body)} : body \in Bodies}

\* Webhook as it would be if the endpoint did not look at the event header
Webhook_AnyEvent(d, req) ==
    /\ inv[d].pc = "idle"
    /\ \A e \in Slots : e < d => inv[e].pc # "idle"
    /\ LET s == [IdleInvocation EXCEPT !.request = req] IN
       inv' = [inv EXCEPT ![d] =
                 IF verify_signature_raises(req.body, req.x_hub_signature_256, WEBHOOK_SECRET)
                 THEN [s EXCEPT !.pc = "error", !.outcome = "raised"]
                 ELSE IF ~verify_signature(req.body, req.x_hub_signature_256, WEBHOOK_SECRET)
                 THEN [s EXCEPT !.pc = "rejected"]
                 ELSE IF json_loads(req.body).action = "completed"
                 THEN [s EXCEPT !.pc = "is_processed",
                                !.payload = json_loads(req.body).run_id,
                                !.after = {e \in Slots : inv[e].pc = "done"},
                                !.failed = {e \in Slots : inv[e].pc = "error"}]
                 ELSE [s EXCEPT !.pc = "ignored"]]
    /\ UNCHANGED <<redis, issues, faults, config, remediations, calc, angel>>

\* The endpoint up to its first await in the handler: verify the signature
\* (401 when it is wrong; an exception of verify_signature leaves the
\* endpoint), parse the body, route on event header and action. The handler
\* is entered for workflow_run/completed; other requests are answered
\* "ignored". A request may arrive while others are being served.
Webhook(d, req) ==
    /\ inv[d].pc = "idle"
    /\ \A e \in Slots : e < d => inv[e].pc # "idle"
    /\ LET s == [IdleInvocation EXCEPT !.request = req] IN
       inv' = [inv EXCEPT ![d] =
                 IF verify_signature_raises(req.body, req.x_hub_signature_256, WEBHOOK_SECRET)
                 THEN [s EXCEPT !.pc = "error", !.outcome = "raised"]
                 ELSE IF ~verify_signature(req.body, req.x_hub_signature_256, WEBHOOK_SECRET)
                 THEN [s EXCEPT !.pc = "rejected"]
                 ELSE IF /\ req.x_github_event = "workflow_run"
                         /\ json_loads(req.body).action = "completed"
                 THEN [s EXCEPT !.pc = "is_processed",
                                !.payload = json_loads(req.body).run_id,
                                !.after = {e \in Slots : inv[e].pc = "done"},
                                !.failed = {e \in Slots : inv[e].pc = "error"}]
                 ELSE [s EXCEPT !.pc = "ignored"]]
    /\ UNCHANGED <<redis, issues, faults, config, remediations, calc, angel>>

\* what the caller of the endpoint receives: 401 from the HTTPException,
\* the acknowledgement once the endpoint returns, a server error when an
\* exception leaves the endpoint; nothing while the handler is running
NoResponse == [status |-> 0, detail |-> ""]

WebhookResponse(s) ==
    CASE s.pc = "rejected" -> [status |-> 401, detail |-> "Invalid signature"]
      [] s.pc = "ignored" -> [status |-> 200, detail |-> "ignored"]
      [] s.pc = "done" -> [status |-> 200, detail |-> "processed"]
      [] s.pc = "error" -> [status |-> 500, detail |-> "Internal Server Error"]
      [] OTHER -> NoResponse

NextWebhook ==
    \/ \E d \in Slots, req \in Requests : Webhook(d, req)
    \/ \E d \in Slots : Handle(d)

SpecWebhook == Init /\ [][NextWebhook]_vars

\* ----------------------------------------------------------------------
\* Pure functions, examined one call at a time: the service is idle
\* ----------------------------------------------------------------------
Quiescent ==
    /\ inv = [d \in Slots |-> IdleInvocation]
    /\ redis = <<>>
    /\ issues = [r \in Repos |-> <<>>]
    /\ faults = 0
    /\ config = [autofix_enabled |-> FALSE]
    /\ remediations = AppRemediations
    /\ angel = NoCheckup

\* FailureFingerprint.hash on two fingerprints. Workflow names and events
\* with and without the separator, a matrix key that is unset ("None"),
\* empty, plain, or the separator itself.
Fingerprints ==
    {FailureFingerprint(workflow_name, conclusion, event, matrix_key) :
        workflow_name \in {"lint", "lint:e2e"}, conclusion \in {"failure", "timed_out"},
        event \in {"push", "push:"}, matrix_key \in {"None", "", "py3", ":"}}

InitFingerprint ==
    /\ Quiescent
    /\ \E a, b \in Fingerprints :
         calc = [fn |-> "hash", args |-> <<a, b>>, returned |-> FALSE, result |-> <<>>]

\* a.hash() and b.hash(), with the content each one hashes
HashFingerprints ==
    /\ calc.fn = "hash"
    /\ ~calc.returned
    /\ calc' = [calc EXCEPT
                  !.returned = TRUE,
                  !.result = [i \in 1..2 |->
                                [content |-> FingerprintContent(calc.args[i]),
                                 hash |-> FingerprintHash(calc.args[i])]]]
    /\ UNCHANGED <<inv, redis, issues, faults, config, remediations, angel>>

\* the same fingerprints hashed again
RehashFingerprints ==
    /\ calc.fn = "hash"
    /\ calc.returned
    /\ Len(calc.result) = 2
    /\ calc' = [calc EXCEPT
                  !.result = calc.result \o
                             [i \in 1..2 |->
                                [content |-> FingerprintContent(calc.args[i]),
                                 hash |-> FingerprintHash(calc.args[i])]]]
    /\ UNCHANGED <<inv, redis, issues, faults, config, remediations, angel>>

NextFingerprint == HashFingerprints \/ RehashFingerprints

SpecFingerprint == InitFingerprint /\ [][NextFingerprint]_vars

\* ----------------------------------------------------------------------
\* generate_issue
\* ----------------------------------------------------------------------
MaxClock == 2           \* seconds the clock may advance while a function is examined

\* datetime.isoformat() of the UTC instant t whole seconds after
\* 2024-05-01T12:00:00+00:00 (t below 10)
isoformat(t) == "2024-05-01T12:00:0" \o ToString(t) \o "+00:00"

\* s[:n]
Prefix(s, n) == SubSeq(s, 1, IF Len(s) < n THEN Len(s) ELSE n)

WorkflowRun(id, name, head_branch, head_sha, conclusion, event, html_url, created_at) ==
    [id |-> id, name |-> name, head_branch |-> head_branch, head_sha |-> head_sha,
     conclusion |-> conclusion, event |-> event, html_url |-> html_url,
     created_at |-> created_at]

\* GuardianConfig as far as generate_issue reads it
DefaultConfig ==
    [issue_prefix |-> issue_prefix, issue_header |-> "Automated CI triage",
     labels |-> <<"ci-failure", "automated">>]

\* A backquote of the body is written as an apostrophe here.
generate_issue(run, fingerprint_hash, cfg, now) ==
    [fingerprint_hash |-> fingerprint_hash,
     title |-> cfg.issue_prefix \o "CI Failure: " \o run.name
                 \o " [" \o Prefix(fingerprint_hash, 8) \o "]",
     body |->
        cfg.issue_header
            \o "\n\n**Failure Signature:** '"
            \o fingerprint_hash
            \o "'\n| Field | Value |\n|-------|-------|\n| Workflow | '"
            \o run.name
            \o "' |\n| Conclusion | '"
            \o run.conclusion
            \o "' |\n| Event | '"
            \o run.event
            \o "' |\n| Branch | '"
            \o run.head_branch
            \o "' |\n| Commit | '"
            \o Prefix(run.head_sha, 8)
            \o "' |\n\n**Run URL:** "
            \o run.html_url
            \o "\n**First Seen:** "
            \o isoformat(run.created_at)
            \o "\n**Last Updated:** "
            \o isoformat(now)
            \o "\n\n<details>\n<summary>Diagnosis Guide</summary>\n\n"
            \o "1. Check logs: 'gh run view "
            \o ToString(run.id.run_id)
            \o " --log'\n2. If flaky: Add 'retry' to workflow or quarantine test\n"
            \o "3. If deterministic: Fix root cause, add regression test\n"
            \o "4. If infra-related: Escalate to platform team\n\n</details>\n",
     labels |-> cfg.labels,
     metadata |-> [run_id |-> RunIdStr(run.id), sha |-> run.head_sha]]

IssueRuns ==
    {WorkflowRun(RunId("acme", "api", 1), "lint", "main",
                 "0123456789abcdef0123456789abcdef01234567", "failure", "push",
                 "https://github.com/acme/api/actions/runs/1", 0),
     WorkflowRun(RunId("acme", "api", 4), "lint", "feature/x",
                 "89abcdef0123456789abcdef0123456789abcdef", "timed_out", "pull_request",
                 "https://github.com/acme/api/actions/runs/4", 1),
     WorkflowRun(RunId("acme", "web", 1), "build", "main",
                 "fedcba9876543210fedcba9876543210fedcba98", "cancelled", "schedule",
                 "https://github.com/acme/web/actions/runs/1", 0)}

IssueHashes == {"b53d9a7c06f86c31", "0068977fa0d319ac"}

IssueConfigs ==
    {DefaultConfig, [issue_prefix |-> "", issue_header |-> "CI", labels |-> <<>>]}

InitIssue ==
    /\ Quiescent
    /\ \E run \in IssueRuns, fingerprint_hash \in IssueHashes, cfg \in IssueConfigs :
         calc = [fn |-> "generate_issue",
                 args |-> [run |-> run, fingerprint_hash |-> fingerprint_hash, config |-> cfg],
                 now |-> 0, result |-> <<>>]

\* datetime.now(timezone.utc) moves on
Tick ==
    /\ calc.fn = "generate_issue"
    /\ calc.now < MaxClock
    /\ calc' = [calc EXCEPT !.now = @ + 1]
    /\ UNCHANGED <<inv, redis, issues, faults, config, remediations, angel>>

\* generate_issue(run, fingerprint_hash, config), called at the current time
GenerateIssue ==
    /\ calc.fn = "generate_issue"
    /\ Len(calc.result) < 2
    /\ calc' = [calc EXCEPT !.result =
                  Append(@, generate_issue(calc.args.run, calc.args.fingerprint_hash,
                                           calc.args.config, calc.now))]
    /\ UNCHANGED <<inv, redis, issues, faults, config, remediations, angel>>

NextIssue == Tick \/ GenerateIssue

SpecIssue == InitIssue /\ [][NextIssue]_vars

\* ----------------------------------------------------------------------
\* Guardian Angel: health score and RepositoryHealth.is_healthy
\* ----------------------------------------------------------------------
MaxSignals == 6         \* signals in the list given to the health functions

\* HealthSignal, as far as scoring reads it; severity and confidence in percent
HealthSignal(severity, confidence) == [severity |-> severity, confidence |-> confidence]

\* a score of n points; scores are kept in ten-thousandths of a point, the
\* unit of severity (percent) * confidence (percent)
Points(n) == n * 10000

\* sum(s.severity * s.confidence * 20 for s in signals)
RECURSIVE Penalty(_)
Penalty(signals) ==
    IF signals = <<>>
    THEN 0
    ELSE Head(signals).severity * Head(signals).confidence * 20 + Penalty(Tail(signals))

\* _calculate_health_score as it would be without the clamp max(0.0, ...)
calculate_health_score_NoClamp(signals) ==
    IF signals = <<>> THEN Points(100) ELSE Points(100) - Penalty(signals)

\* GuardianAngel._calculate_health_score
calculate_health_score(signals) ==
    IF signals = <<>>
    THEN Points(100)
    ELSE IF Points(100) - Penalty(signals) > 0 THEN Points(100) - Penalty(signals) ELSE 0

RepositoryHealth(overall_score, signals) ==
    [overall_score |-> overall_score, signals |-> signals]

\* is_healthy as it would be if a score of exactly 80 counted as healthy
is_healthy_NonStrict(health) ==
    /\ health.overall_score >= Points(80)
    /\ ~\E i \in 1..Len(health.signals) :
          health.signals[i].severity > 80 /\ health.signals[i].confidence > 70

\* RepositoryHealth.is_healthy
is_healthy(health) ==
    /\ health.overall_score > Points(80)
    /\ ~\E i \in 1..Len(health.signals) :
          health.signals[i].severity > 80 /\ health.signals[i].confidence > 70

\* the signals of the examined lists: full severity and confidence; both
\* above the thresholds of is_healthy; severity above and confidence at its
\* threshold; severity at its threshold and confidence above
SignalKinds ==
    {HealthSignal(100, 100), HealthSignal(90, 80), HealthSignal(90, 70), HealthSignal(80, 80)}

SignalLists == UNION {[1..n -> SignalKinds] : n \in 0..MaxSignals}

\* the scores a RepositoryHealth is constructed with, beside the computed one
GivenScores == {Points(80), Points(85)}

InitHealth ==
    /\ Quiescent
    /\ \E signals \in SignalLists :
         calc = [fn |-> "health", signals |-> signals, scored |-> FALSE, score |-> 0,
                 asked |-> FALSE, health |-> RepositoryHealth(0, <<>>), healthy |-> FALSE]

\* score = self._calculate_health_score(signals)
CalculateHealthScore ==
    /\ calc.fn = "health"
    /\ ~calc.scored
    /\ calc' = [calc EXCEPT !.scored = TRUE, !.score = calculate_health_score(calc.signals)]
    /\ UNCHANGED <<inv, redis, issues, faults, config, remediations, angel>>

\* RepositoryHealth(overall_score=..., signals=signals).is_healthy(), the
\* score being the computed one (as in perform_checkup) or a given one
IsHealthy(overall_score) ==
    /\ calc.fn = "health"
    /\ ~calc.asked
    /\ overall_score \in GivenScores \cup (IF calc.scored THEN {calc.score} ELSE {})
    /\ calc' = [calc EXCEPT
                  !.asked = TRUE,
                  !.health = RepositoryHealth(overall_score, calc.signals),
                  !.healthy = is_healthy(RepositoryHealth(overall_score, calc.signals))]
    /\ UNCHANGED <<inv, redis, issues, faults, config, remediations, angel>>

NextHealth ==
    \/ CalculateHealthScore
    \/ \E overall_score \in GivenScores \cup {calc.score} : IsHealthy(overall_score)

SpecHealth == InitHealth /\ [][NextHealth]_vars

\* ----------------------------------------------------------------------
\* Repo Guardian Angel (src/tools/repo_guardian_angel.py): the oracles
\* ----------------------------------------------------------------------
MaxOutcomes == 25       \* recorded outcomes of one test
MaxRuns == 12           \* runs of a history
MaxCommits == 21        \* commits of one author at the head of a file's log

\* HealthSignal as an oracle builds it: dimension is the HealthDimension
\* value, severity and confidence are in percent
Signal(dimension, severity, confidence, evidence) ==
    [dimension |-> dimension, severity |-> severity, confidence |-> confidence,
     evidence |-> evidence]

\* Prophecy: probability in percent, timeframe in days
Prophecy(probability, timeframe) == [probability |-> probability, timeframe |-> timeframe]

\* GuardianAngel.oracles, in registration order
oracles == <<"FlakinessOracle", "DurationOracle", "KnowledgeSiloOracle">>

\* RunHistory(runs=runs): a run is given by its age in days and its duration
\* (updated_at - created_at) in seconds; get_test_results() is the
\* placeholder that returns {}
RunHistory(runs) == [runs |-> runs, test_results |-> <<>>]

\* history.get_durations(days)
get_durations(history, days) ==
    LET inside == SelectSeq(history.runs, LAMBDA r : r.created_days_ago <= days)
    IN  [i \in 1..Len(inside) |-> inside[i].seconds]

\* the severity expression without abs()
FlakinessSeverity_NoAbs(t) == 100 - ((200 * t.passed - 100 * t.total) \div t.total)

\* severity = 1 - abs(success_rate - 0.5) * 2 of a test of which passed
\* outcomes among total passed, in percent (a whole number whenever total
\* divides 200, as every examined total does)
FlakinessSeverity(t) ==
    LET twice == 200 * t.passed - 100 * t.total
    IN  100 - ((IF twice < 0 THEN -twice ELSE twice) \div t.total)

\* FlakinessOracle.divine: the signals it yields, in order, for the test
\* results history.get_test_results() returned.  The trigger
\* 0.1 < success_rate < 0.9 or variance > 0.1 is evaluated on the exact
\* ratios (the sample variance of 0/1 outcomes is passed * (total - passed)
\* / (total * (total - 1))), with which the float comparisons agree for
\* every total below 60.
RECURSIVE FlakinessOracle_divine(_)
FlakinessOracle_divine(test_results) ==
    IF test_results = <<>>
    THEN <<>>
    ELSE LET t == Head(test_results)
             rest == FlakinessOracle_divine(Tail(test_results))
             triggers ==
                 \/ t.total < 10 * t.passed /\ 10 * t.passed < 9 * t.total
                 \/ 10 * t.passed * (t.total - t.passed) > t.total * (t.total - 1)
         IN  IF t.total >= 5 /\ triggers
             THEN <<Signal("flakiness", FlakinessSeverity(t),
                           IF 5 * t.total < 100 THEN 5 * t.total ELSE 100,
                           [test_name |-> t.test_name, samples |-> t.total])>> \o rest
             ELSE rest

\* recent > older * 1.2 as the floats compare; recent and older are means of
\* five whole-second samples and are given by the sums of the five.  The
\* listed sums (all there are up to 600) are those whose mean, multiplied
\* by 1.2 in binary floating point, falls below the exact product:
\* 3.0 * 1.2 is 3.5999999999999996.
ExceedsOlder(recent, older) ==
    \/ 5 * recent > 6 * older
    \/ /\ 5 * recent = 6 * older
       /\ older \in {15, 30, 45, 60, 90, 115, 120, 155, 180, 205, 230, 240, 255, 265, 285,
                     310, 335, 360, 385, 410, 435, 460, 480, 485, 505, 510, 530, 545, 570,
                     595}

\* DurationOracle.divine: whether it raised (the division by a zero mean)
\* and the signals it yielded; severity in percent, a whole number for the
\* examined histories
DurationOracle_divine(history) ==
    LET durations == get_durations(history, 30)
        n == Len(durations)
        recent == durations[n - 4] + durations[n - 3] + durations[n - 2]
                    + durations[n - 1] + durations[n]
        older == durations[1] + durations[2] + durations[3] + durations[4] + durations[5]
        severity == (200 * (recent - older)) \div older
    IN  IF n < 10
        THEN [raised |-> FALSE, signals |-> <<>>]
        ELSE IF ~ExceedsOlder(recent, older)
             THEN [raised |-> FALSE, signals |-> <<>>]
             ELSE IF older = 0
                  THEN [raised |-> TRUE, signals |-> <<>>]
                  ELSE [raised |-> FALSE,
                        signals |-> <<Signal("duration",
                                             IF severity < 100 THEN severity ELSE 100, 90,
                                             [older_avg |-> older, recent_avg |-> recent])>>]

\* github.get_commits_for_file(owner, repo, path, limit): the newest limit
\* commits of the file's log (the log is kept newest first)
get_commits_for_file(file, limit) ==
    SubSeq(file.log, 1, IF Len(file.log) < limit THEN Len(file.log) ELSE limit)

\* KnowledgeSiloOracle._find_last_others_touch; None is "None"
find_last_others_touch(commits) ==
    LET others == {i \in 1..Len(commits) : commits[i].author # commits[1].author}
    IN  IF commits = <<>> \/ others = {}
        THEN "None"
        ELSE isoformat(commits[CHOOSE i \in others : \A j \in others : i <= j].committed_at)

\* KnowledgeSiloOracle.divine over the files get_code_files returned
RECURSIVE KnowledgeSiloOracle_divine(_)
KnowledgeSiloOracle_divine(files) ==
    IF files = <<>>
    THEN <<>>
    ELSE LET commits == get_commits_for_file(Head(files), 20)
             authors == {commits[i].author : i \in 1..Len(commits)}
             rest == KnowledgeSiloOracle_divine(Tail(files))
         IN  IF Cardinality(authors) = 1
             THEN <<Signal("knowledge", 60, 80,
                           [file |-> Head(files).path,
                            sole_author |-> CHOOSE a \in authors : TRUE,
                            last_others_touch |-> find_last_others_touch(commits)])>> \o rest
             ELSE rest

\* prophesy if the thresholds 0.7 and 0.5 themselves were enough
prophesy_AtThreshold(oracle, signal) ==
    CASE oracle = "FlakinessOracle" ->
           IF signal.severity >= 70 THEN <<Prophecy(80, 7)>> ELSE <<>>
      [] oracle = "DurationOracle" ->
           IF signal.severity >= 50 THEN <<Prophecy(60, 30)>> ELSE <<>>
      [] oracle = "KnowledgeSiloOracle" -> <<>>

\* oracle.prophesy(signal, history, ml): a list of at most one prophecy,
\* empty for None
prophesy(oracle, signal) ==
    CASE oracle = "FlakinessOracle" ->
           IF signal.severity > 70 THEN <<Prophecy(80, 7)>> ELSE <<>>
      [] oracle = "DurationOracle" ->
           IF signal.severity > 50 THEN <<Prophecy(60, 30)>> ELSE <<>>
      [] oracle = "KnowledgeSiloOracle" -> <<>>

\* oracle.divine(owner, repo, history, github) run to its end: whether it
\* raised and the signals it yielded; files is what github holds
divine(oracle, history, files) ==
    CASE oracle = "FlakinessOracle" ->
           [raised |-> FALSE, signals |-> FlakinessOracle_divine(history.test_results)]
      [] oracle = "DurationOracle" -> DurationOracle_divine(history)
      [] oracle = "KnowledgeSiloOracle" ->
           [raised |-> FALSE, signals |-> KnowledgeSiloOracle_divine(files)]

\* the prophecies perform_checkup collects for the signals of one oracle
RECURSIVE Prophecies(_, _)
Prophecies(oracle, signals) ==
    IF signals = <<>>
    THEN <<>>
    ELSE prophesy(oracle, Head(signals)) \o Prophecies(oracle, Tail(signals))

\* --- what the oracles are examined on ---
\* n times x
Repeat(x, n) == [i \in 1..n |-> x]

\* Test results: none, one test, or a test with four outcomes and one more;
\* the totals are those for which every severity is a whole percent.
TestResults ==
    LET tests == UNION {{[test_name |-> "test_a", passed |-> passed, total |-> total] :
                           passed \in 0..total} :
                        total \in {n \in 0..MaxOutcomes : n = 0 \/ 200 % n = 0}}
    IN  {<<>>} \cup {<<t>> : t \in tests}
          \cup {<<[test_name |-> "test_b", passed |-> 2, total |-> 4], t>> : t \in tests}

\* Run lists: five runs of one kind, up to MaxRuns - 10 long runs and five
\* runs of another kind, all of them a day old or the middle ones 45 days
\* old; the first runs of such a list; five runs outside the 30-day window
\* before five inside.
RunLists ==
    LET Runs(seconds, age) ==
            [i \in 1..Len(seconds) |-> [created_days_ago |-> age, seconds |-> seconds[i]]]
        olders == {Repeat(100, 5), Repeat(3, 5), Repeat(0, 5)}
        recents == {Repeat(125, 5), Repeat(120, 5), Repeat(119, 5), Repeat(200, 5),
                    <<4, 4, 4, 3, 3>>, Repeat(5, 5), Repeat(0, 5)}
    IN  UNION {
          {Runs(older, 1) \o Runs(Repeat(1000, m), age) \o Runs(recent, 1) :
             m \in 0..(MaxRuns - 10), age \in {1, 45}}
          \cup {SubSeq(Runs(older \o recent, 1), 1, n) : n \in 0..9}
          \cup {Runs(older, 45) \o Runs(recent, 1)} :
          older \in olders, recent \in recents}

\* File logs, newest commit first: up to MaxCommits commits by alice, then
\* up to two by bob, then possibly one more by alice; three commits a second
FileLogs ==
    LET Log(authors) ==
            [i \in 1..Len(authors) |->
               [author |-> authors[i], committed_at |-> (Len(authors) - i) \div 3]]
    IN  {Log(Repeat("alice", k) \o Repeat("bob", m) \o Repeat("alice", j)) :
           k \in 0..MaxCommits, m \in 0..2, j \in 0..1}

\* the arguments of one oracle.divine call
OracleCalls ==
    {[oracle |-> "FlakinessOracle",
      history |-> [runs |-> <<>>, test_results |-> t], files |-> <<>>] : t \in TestResults}
    \cup {[oracle |-> "DurationOracle", history |-> RunHistory(r), files |-> <<>>] :
            r \in RunLists}
    \cup {[oracle |-> "KnowledgeSiloOracle", history |-> RunHistory(<<>>),
           files |-> <<[path |-> "src/app.py", log |-> l]>> \o more] :
            l \in FileLogs,
            more \in {<<>>, <<[path |-> "src/db.py",
                               log |-> <<[author |-> "bob", committed_at |-> 0]>>]>>}}

\* for signal in oracle.divine(...): signals.append(signal); prophesy(signal),
\* up to the first suspension.  FlakinessOracle and DurationOracle await
\* nothing and run to their end; KnowledgeSiloOracle is resumed from
\* `files = await github.get_code_files(...)` and is suspended again in
\* get_commits_for_file of the first file (calc.file is the number of the
\* file whose commits are awaited, 0 before get_code_files has returned).
DivineCall ==
    /\ calc.fn = "divine"
    /\ ~calc.done
    /\ calc.file = 0
    /\ calc' =
         IF calc.oracle = "KnowledgeSiloOracle" /\ calc.files # <<>>
         THEN [calc EXCEPT !.file = 1]
         ELSE LET d == divine(calc.oracle, calc.history, calc.files)
              IN  [calc EXCEPT !.done = TRUE, !.raised = d.raised, !.signals = d.signals,
                               !.prophecies = Prophecies(calc.oracle, d.signals)]
    /\ UNCHANGED <<inv, redis, issues, faults, config, remediations, angel>>

\* commits = await github.get_commits_for_file(owner, repo, path, limit=20)
\* returns: the file's signal, if any, is yielded, appended and prophesied
\* about; then the next file's commits are awaited, or the call ends
DivineCallCommits ==
    /\ calc.fn = "divine"
    /\ ~calc.done
    /\ calc.file >= 1
    /\ LET yielded == KnowledgeSiloOracle_divine(<<calc.files[calc.file]>>)
       IN  calc' = [calc EXCEPT
                     !.signals = @ \o yielded,
                     !.prophecies = @ \o Prophecies(calc.oracle, yielded),
                     !.file = IF calc.file < Len(calc.files) THEN @ + 1 ELSE @,
                     !.done = calc.file = Len(calc.files)]
    /\ UNCHANGED <<inv, redis, issues, faults, config, remediations, angel>>

\* ----------------------------------------------------------------------
\* GuardianAngel.perform_checkup and the intervention pass.  One checkup
\* runs at a time; angel holds its locals and position, what GitHub holds
\* for it (runs, files), and the pull requests, issues and notices opened.
\* ----------------------------------------------------------------------
MaxCheckups == 2        \* consecutive calls of perform_checkup

\* GuardianAngel.interventions, in registration order
interventions == <<"FlakyQuarantineIntervention", "KnowledgeSharingIntervention">>

\* can_address if the quarantine claimed a severity of exactly 0.7 as well
can_address_AtLeast(intervention, signal) ==
    CASE intervention = "FlakyQuarantineIntervention" ->
           signal.dimension = "flakiness" /\ signal.severity >= 70
      [] intervention = "KnowledgeSharingIntervention" -> signal.dimension = "knowledge"

\* intervention.can_address(signal)
can_address(intervention, signal) ==
    CASE intervention = "FlakyQuarantineIntervention" ->
           signal.dimension = "flakiness" /\ signal.severity > 70
      [] intervention = "KnowledgeSharingIntervention" -> signal.dimension = "knowledge"

\* GitHubRESTAdapter.get_file_content on the response of the contents
\* endpoint: whether it raised and the content returned, None being "None"
get_file_content(resp) ==
    IF resp.status_code = 404
    THEN [raised |-> FALSE, content |-> "None"]
    ELSE IF resp.status_code >= 400
         THEN [raised |-> TRUE, content |-> "None"]
         ELSE IF resp.encoding = "base64"
              THEN [raised |-> FALSE, content |-> resp.content]
              ELSE [raised |-> FALSE, content |-> "None"]

\* the checkup's record of a step: what was done for which signal by which
\* intervention
Step(op, signal, by, answer) == [op |-> op, signal |-> signal, by |-> by, answer |-> answer]

\* a GuardianAngel on a repository with these runs and files, between calls
Angel(runs, files) ==
    [pc |-> "idle", entry |-> "perform_checkup", started |-> 0, completed |-> 0,
     runs |-> runs, files |-> files, history |-> RunHistory(<<>>), oracle |-> 1,
     signals |-> <<>>, prophecies |-> <<>>,
     health |-> [overall_score |-> 0, signals |-> <<>>, prophecies |-> <<>>],
     file |-> 0, idx |-> 1, k |-> 1, trace |-> <<>>, content |-> "", raised_at |-> "",
     prs |-> <<>>, docs |-> <<>>, notices |-> <<>>]

\* perform_checkup(owner, repo) is called: signals = [], prophecies = [].
\* Where _intervene is examined on its own, it is called again with an
\* equal health: the signals have persisted.
PerformCheckup ==
    /\ angel.pc \in {"idle", "returned", "raised"}
    /\ angel.started < MaxCheckups
    /\ angel' = [angel EXCEPT
                   !.pc = IF angel.entry = "_intervene" THEN "intervene" ELSE "fetch_run_history",
                   !.started = @ + 1,
                   !.signals = <<>>, !.prophecies = <<>>, !.oracle = 1, !.file = 0,
                   !.idx = 1, !.k = 1, !.trace = <<>>, !.raised_at = ""]
    /\ UNCHANGED <<inv, redis, issues, faults, config, remediations, calc>>

\* history = await self._fetch_run_history(owner, repo, days=90)
FetchRunHistory ==
    /\ angel.pc = "fetch_run_history"
    /\ angel' = [angel EXCEPT
                   !.pc = "divine",
                   !.history = RunHistory(SelectSeq(angel.runs,
                                                    LAMBDA r : r.created_days_ago <= 90))]
    /\ UNCHANGED <<inv, redis, issues, faults, config, remediations, calc>>

\* Divine as it would be if the health were scored and the intervention
\* pass entered after the first oracle
Divine_ScoresAfterFirst ==
    /\ angel.pc = "divine"
    /\ oracles[angel.oracle] # "KnowledgeSiloOracle"
    /\ LET oracle == oracles[angel.oracle]
           d == divine(oracle, angel.history, angel.files)
       IN  angel' =
             IF d.raised
             THEN [angel EXCEPT !.pc = "raised", !.raised_at = oracle]
             ELSE [angel EXCEPT
                     !.signals = @ \o d.signals,
                     !.prophecies = @ \o Prophecies(oracle, d.signals),
                     !.trace = Append(@, Step("divine", 0, oracle, TRUE)),
                     !.oracle = @ + 1,
                     !.pc = "score"]
    /\ UNCHANGED <<inv, redis, issues, faults, config, remediations, calc>>

\* one turn of `for oracle in self.oracles` of an oracle that awaits nothing
\* (FlakinessOracle, DurationOracle): the oracle's signals and their
\* prophecies are appended; an exception of the oracle leaves perform_checkup
Divine ==
    /\ angel.pc = "divine"
    /\ oracles[angel.oracle] # "KnowledgeSiloOracle"
    /\ LET oracle == oracles[angel.oracle]
           d == divine(oracle, angel.history, angel.files)
       IN  angel' =
             IF d.raised
             THEN [angel EXCEPT !.pc = "raised", !.raised_at = oracle]
             ELSE [angel EXCEPT
                     !.signals = @ \o d.signals,
                     !.prophecies = @ \o Prophecies(oracle, d.signals),
                     !.trace = Append(@, Step("divine", 0, oracle, TRUE)),
                     !.oracle = @ + 1,
                     !.pc = IF angel.oracle = Len(oracles) THEN "score" ELSE "divine"]
    /\ UNCHANGED <<inv, redis, issues, faults, config, remediations, calc>>

\* the turn of an oracle is over: the next oracle, or the score after the last
EndOfTurn(a) ==
    [a EXCEPT !.trace = Append(@, Step("divine", 0, oracles[a.oracle], TRUE)),
              !.oracle = @ + 1, !.file = 0,
              !.pc = IF a.oracle = Len(oracles) THEN "score" ELSE "divine"]

\* the turn of KnowledgeSiloOracle, resumed from
\* `files = await github.get_code_files(owner, repo)`: suspended again in
\* get_commits_for_file of the first file; with no files the turn is over
GetCodeFiles ==
    /\ angel.pc = "divine"
    /\ oracles[angel.oracle] = "KnowledgeSiloOracle"
    /\ angel' = IF angel.files = <<>>
                THEN EndOfTurn(angel)
                ELSE [angel EXCEPT !.pc = "get_commits_for_file", !.file = 1]
    /\ UNCHANGED <<inv, redis, issues, faults, config, remediations, calc>>

\* commits = await github.get_commits_for_file(owner, repo, path, limit=20)
\* returns: the file's signal, if any, is yielded, appended and prophesied
\* about; then the next file's commits are awaited, or the turn is over
GetCommitsForFile ==
    /\ angel.pc = "get_commits_for_file"
    /\ LET oracle == oracles[angel.oracle]
           yielded == KnowledgeSiloOracle_divine(<<angel.files[angel.file]>>)
           a == [angel EXCEPT !.signals = @ \o yielded,
                              !.prophecies = @ \o Prophecies(oracle, yielded)]
       IN  angel' = IF angel.file < Len(angel.files)
                    THEN [a EXCEPT !.file = @ + 1]
                    ELSE EndOfTurn(a)
    /\ UNCHANGED <<inv, redis, issues, faults, config, remediations, calc>>

\* score = self._calculate_health_score(signals); health = RepositoryHealth(...)
Score ==
    /\ angel.pc = "score"
    /\ angel' = [angel EXCEPT
                   !.pc = "intervene",
                   !.health = [overall_score |-> calculate_health_score(angel.signals),
                               signals |-> angel.signals,
                               prophecies |-> angel.prophecies],
                   !.trace = Append(@, Step("score", 0, "", TRUE))]
    /\ UNCHANGED <<inv, redis, issues, faults, config, remediations, calc>>

\* _intervene if it went on to the next intervention after an execution
NextSignal_NoBreak(a) == [a EXCEPT !.pc = "intervene", !.k = @ + 1]

\* await self._record_intervention(result); break
NextSignal(a) == [a EXCEPT !.pc = "intervene", !.idx = @ + 1, !.k = 1]

\* _intervene at signal idx and intervention k: the severity test, then
\* can_address of the intervention and, if it claims the signal, the call of
\* its execute up to the first port call
CanAddress ==
    /\ angel.pc = "intervene"
    /\ angel.idx <= Len(angel.health.signals)
    /\ LET signal == angel.health.signals[angel.idx]
           intervention == interventions[angel.k]
       IN  angel' =
             IF signal.severity < 50 \/ angel.k > Len(interventions)
             THEN [angel EXCEPT !.idx = @ + 1, !.k = 1]
             ELSE IF can_address(intervention, signal)
                  THEN [angel EXCEPT
                          !.trace = @ \o <<Step("can_address", angel.idx, intervention, TRUE),
                                           Step("execute", angel.idx, intervention, TRUE)>>,
                          !.pc = IF intervention = "FlakyQuarantineIntervention"
                                 THEN "get_file_content" ELSE "create_issue"]
                  ELSE [angel EXCEPT
                          !.trace = Append(@, Step("can_address", angel.idx, intervention,
                                                   FALSE)),
                          !.k = @ + 1]
    /\ UNCHANGED <<inv, redis, issues, faults, config, remediations, calc>>

\* content = await github.get_file_content(...); content or ""
GetFileContent ==
    /\ angel.pc = "get_file_content"
    /\ \E resp \in {[status_code |-> 200, encoding |-> "base64", content |-> "def test_a(): ..."],
                    [status_code |-> 200, encoding |-> "none", content |-> ""],
                    [status_code |-> 404, encoding |-> "", content |-> ""],
                    [status_code |-> 500, encoding |-> "", content |-> ""]} :
         LET got == get_file_content(resp)
         IN  angel' =
               IF got.raised
               THEN [angel EXCEPT !.pc = "raised", !.raised_at = "get_file_content"]
               ELSE [angel EXCEPT !.pc = "create_pr",
                                  !.content = IF got.content = "None" THEN "" ELSE got.content]
    /\ UNCHANGED <<inv, redis, issues, faults, config, remediations, calc>>

\* pr = await github.create_pr(...)
CreatePr ==
    /\ angel.pc = "create_pr"
    /\ LET signal == angel.health.signals[angel.idx]
       IN  angel' = [angel EXCEPT
                       !.pc = "send_channel",
                       !.prs = Append(@, [number |-> Len(@) + 1, base |-> "main",
                                          title |-> "Auto-quarantine flaky test: "
                                                      \o signal.evidence.test_name,
                                          checkup |-> angel.started])]
    /\ UNCHANGED <<inv, redis, issues, faults, config, remediations, calc>>

\* await notifier.send_channel(...); return InterventionResult(type="quarantine", ...)
SendChannel ==
    /\ angel.pc = "send_channel"
    /\ angel' = NextSignal(
                  [angel EXCEPT
                     !.notices = Append(@, [channel |-> "#ci-alerts", pr |-> Len(angel.prs)]),
                     !.trace = Append(@, Step("quarantine", angel.idx,
                                              "FlakyQuarantineIntervention", TRUE))])
    /\ UNCHANGED <<inv, redis, issues, faults, config, remediations, calc>>

\* KnowledgeSharingIntervention.execute if it looked for an issue it had
\* opened for the file before
CreateIssue_OncePerFile ==
    /\ angel.pc = "create_issue"
    /\ LET signal == angel.health.signals[angel.idx]
           title == "Document: " \o signal.evidence.file
       IN  angel' = NextSignal(
                      [angel EXCEPT
                         !.docs = IF \E i \in 1..Len(@) : @[i].title = title
                                  THEN @
                                  ELSE Append(@, [number |-> Len(@) + 1, title |-> title,
                                                  assignees |-> <<signal.evidence.sole_author>>,
                                                  checkup |-> angel.started]),
                         !.trace = Append(@, Step("knowledge_request", angel.idx,
                                                  "KnowledgeSharingIntervention", TRUE))])
    /\ UNCHANGED <<inv, redis, issues, faults, config, remediations, calc>>

\* issue = await github.create_issue(...); return InterventionResult(type="knowledge_request", ...)
CreateIssue ==
    /\ angel.pc = "create_issue"
    /\ LET signal == angel.health.signals[angel.idx]
       IN  angel' = NextSignal(
                      [angel EXCEPT
                         !.docs = Append(@, [number |-> Len(@) + 1,
                                             title |-> "Document: " \o signal.evidence.file,
                                             assignees |-> <<signal.evidence.sole_author>>,
                                             checkup |-> angel.started]),
                         !.trace = Append(@, Step("knowledge_request", angel.idx,
                                                  "KnowledgeSharingIntervention", TRUE))])
    /\ UNCHANGED <<inv, redis, issues, faults, config, remediations, calc>>

\* _intervene has gone through the signals; perform_checkup returns health
ReturnHealth ==
    /\ angel.pc = "intervene"
    /\ angel.idx > Len(angel.health.signals)
    /\ angel' = [angel EXCEPT !.pc = "returned", !.completed = @ + 1,
                              !.trace = Append(@, Step("return", 0, "", TRUE))]
    /\ UNCHANGED <<inv, redis, issues, faults, config, remediations, calc>>

\* an awaited port call raises (list_recent_runs, get_code_files or
\* get_commits_for_file, create_pr, send_channel, create_issue): nothing
\* catches it, it leaves perform_checkup
AngelPortRaises ==
    /\ \/ angel.pc \in {"fetch_run_history", "get_commits_for_file", "create_pr",
                        "send_channel", "create_issue"}
       \/ angel.pc = "divine" /\ oracles[angel.oracle] = "KnowledgeSiloOracle"
    /\ angel' = [angel EXCEPT
                   !.pc = "raised",
                   !.raised_at = IF angel.pc \in {"divine", "get_commits_for_file"}
                                 THEN oracles[angel.oracle] ELSE angel.pc]
    /\ UNCHANGED <<inv, redis, issues, faults, config, remediations, calc>>

\* A GuardianAngel is examined in one of three ways: an oracle's divine is
\* called on given arguments; perform_checkup is called, up to MaxCheckups
\* times, on a repository with given runs and files; _intervene is called
\* on a given RepositoryHealth of up to two signals.
InitAngel ==
    /\ inv = [d \in Slots |-> IdleInvocation]
    /\ redis = <<>>
    /\ issues = [r \in Repos |-> <<>>]
    /\ faults = 0
    /\ config = [autofix_enabled |-> FALSE]
    /\ remediations = AppRemediations
    /\ \/ /\ angel = NoCheckup
          /\ \E call \in OracleCalls :
               calc = [fn |-> "divine", oracle |-> call.oracle, history |-> call.history,
                       files |-> call.files, file |-> 0, done |-> FALSE, raised |-> FALSE,
                       signals |-> <<>>, prophecies |-> <<>>]
       \/ /\ calc = NoCalc
          /\ LET Runs(seconds, age) ==
                     [i \in 1..Len(seconds) |->
                        [created_days_ago |-> age, seconds |-> seconds[i]]]
                 Log(authors) ==
                     [i \in 1..Len(authors) |->
                        [author |-> authors[i], committed_at |-> Len(authors) - i]]
             IN  \E runs \in {<<>>,
                              Runs(Repeat(100, 5) \o Repeat(119, 5), 1),
                              Runs(Repeat(100, 5) \o Repeat(125, 5), 1),
                              Runs(Repeat(100, 5) \o Repeat(200, 5), 1),
                              Runs(Repeat(0, 5) \o Repeat(5, 5), 1),
                              Runs(Repeat(100, 5) \o Repeat(200, 5), 1)
                                \o Runs(Repeat(900, 5), 100)},
                    files \in {<<>>,
                               <<[path |-> "src/app.py", log |-> Log(<<"alice", "bob">>)]>>,
                               <<[path |-> "src/app.py", log |-> Log(Repeat("alice", 3))]>>,
                               <<[path |-> "src/app.py", log |-> Log(Repeat("alice", 3))],
                                 [path |-> "src/db.py", log |-> Log(<<"bob">>)]>>} :
                   angel = Angel(runs, files)
       \/ /\ calc = NoCalc
          /\ LET kinds ==
                     {Signal("flakiness", severity, 100, [test_name |-> "test_a", samples |-> 20]) :
                        severity \in {40, 70, 80}}
                     \cup {Signal("knowledge", severity, 80,
                                  [file |-> "src/app.py", sole_author |-> "alice",
                                   last_others_touch |-> "None"]) : severity \in {40, 60}}
                     \cup {Signal("duration", severity, 90,
                                  [older_avg |-> 500, recent_avg |-> 1000]) :
                             severity \in {50, 100}}
                     \cup {Signal(dimension, 90, 90, [note |-> ""]) :
                             dimension \in {"coverage", "dependencies"}}
             IN  \E signals \in UNION {[1..n -> kinds] : n \in 0..2} :
                   angel = [Angel(<<>>, <<>>) EXCEPT
                              !.pc = "intervene", !.entry = "_intervene", !.started = 1,
                              !.health = [overall_score |-> calculate_health_score(signals),
                                          signals |-> signals, prophecies |-> <<>>]]

NextAngel ==
    \/ DivineCall
    \/ DivineCallCommits
    \/ PerformCheckup
    \/ FetchRunHistory
    \/ Divine
    \/ GetCodeFiles
    \/ GetCommitsForFile
    \/ Score
    \/ CanAddress
    \/ GetFileContent
    \/ CreatePr
    \/ SendChannel
    \/ CreateIssue
    \/ ReturnHealth
    \/ AngelPortRaises

SpecAngel == InitAngel /\ [][NextAngel]_vars

\* ----------------------------------------------------------------------
\* GitHubRESTAdapter._get_installation_token
\* ----------------------------------------------------------------------
MaxTokenCalls == 4      \* calls of _get_installation_token on one adapter
MaxClockMoves == 2      \* times the clock moves between the calls

\* the lifetime given to a cached token, in seconds
TokenLifetime == 3600

\* the (owner, repo) pairs a token is asked for: two repositories of one
\* owner and a repository of the same name under another owner
TokenKeys == {<<"acme", "api">>, <<"acme", "web">>, <<"other", "api">>}

\* The cache entry under (owner, repo) is returned when its expiry lies
\* strictly after now; otherwise a token is minted and cached under
\* (owner, repo) with expiry now + 3600 s. Yields the token, the cache
\* afterwards, and whether a token was minted.
get_installation_token_StaleAllowed(tokens, owner, repo, now) ==
    LET key == <<owner, repo>>
    IN  IF key \in DOMAIN tokens /\ tokens[key].expiry >= now
        THEN [token |-> tokens[key].token, tokens |-> tokens, minted |-> FALSE]
        ELSE [token |-> "ghs_...",
              tokens |-> [k \in DOMAIN tokens \cup {key} |->
                            IF k = key
                            THEN [token |-> "ghs_...", expiry |-> now + TokenLifetime]
                            ELSE tokens[k]],
              minted |-> TRUE]

get_installation_token(tokens, owner, repo, now) ==
    LET key == <<owner, repo>>
    IN  IF key \in DOMAIN tokens /\ tokens[key].expiry > now
        THEN [token |-> tokens[key].token, tokens |-> tokens, minted |-> FALSE]
        ELSE [token |-> "ghs_...",
              tokens |-> [k \in DOMAIN tokens \cup {key} |->
                            IF k = key
                            THEN [token |-> "ghs_...", expiry |-> now + TokenLifetime]
                            ELSE tokens[k]],
              minted |-> TRUE]

\* a GitHubRESTAdapter after construction: the token cache is empty
InitToken ==
    /\ Quiescent
    /\ calc = [fn |-> "_get_installation_token", now |-> 0,
               installation_tokens |-> [k \in {} |-> <<>>],
               moves |-> 0, calls |-> <<>>]

\* datetime.now(timezone.utc) moves on by a second or by a second less
\* than the lifetime of a token
ClockMoves ==
    /\ calc.fn = "_get_installation_token"
    /\ calc.moves < MaxClockMoves
    /\ \E dt \in {1, TokenLifetime - 1} :
         calc' = [calc EXCEPT !.now = @ + dt, !.moves = @ + 1]
    /\ UNCHANGED <<inv, redis, issues, faults, config, remediations, angel>>

\* await self._get_installation_token(owner, repo); the call is recorded
\* with the time, whether it minted, and the expiry of the entry under its key
GetInstallationToken ==
    /\ calc.fn = "_get_installation_token"
    /\ Len(calc.calls) < MaxTokenCalls
    /\ \E key \in TokenKeys :
         LET got == get_installation_token(calc.installation_tokens, key[1], key[2], calc.now)
         IN  calc' = [calc EXCEPT
                        !.installation_tokens = got.tokens,
                        !.calls = Append(@, [key |-> key, at |-> calc.now,
                                             token |-> got.token, minted |-> got.minted,
                                             expiry |-> got.tokens[key].expiry])]
    /\ UNCHANGED <<inv, redis, issues, faults, config, remediations, angel>>

NextToken ==
    \/ ClockMoves
    \/ GetInstallationToken

SpecToken == InitToken /\ [][NextToken]_vars

\* ----------------------------------------------------------------------
\* TeachingEngine.generate_curriculum
\* ----------------------------------------------------------------------
MaxFailures == 4        \* failures the vector store returns for a team

\* f.get(key, default) on a failure, a dict that may lack the key
Get(f, key, default) == IF key \in DOMAIN f THEN f[key] ELSE default

\* _cluster_failures: the failures grouped under f.get("root_cause",
\* "unknown"); a dict, so the causes are in the order of their first failure
\* and each cluster keeps the order of retrieval
RECURSIVE cluster_failures(_)
cluster_failures(failures) ==
    IF failures = <<>>
    THEN <<>>
    ELSE LET clusters == cluster_failures(SubSeq(failures, 1, Len(failures) - 1))
             f == failures[Len(failures)]
             cause == Get(f, "root_cause", "unknown")
         IN  IF \E i \in 1..Len(clusters) : clusters[i].cause = cause
             THEN [i \in 1..Len(clusters) |->
                     IF clusters[i].cause = cause
                     THEN [clusters[i] EXCEPT !.cluster = Append(@, f)]
                     ELSE clusters[i]]
             ELSE Append(clusters, [cause |-> cause, cluster |-> <<f>>])

\* _generate_exercise
generate_exercise(failure) ==
    "Reproduce and fix: " \o Get(failure, "title", "unknown failure")

\* generate_curriculum if every failure of a cluster became an exercise
generate_curriculum_AllExercises(failures) ==
    LET clusters == cluster_failures(failures)
    IN  [i \in 1..Len(clusters) |->
           LET cluster == clusters[i].cluster
           IN  [title |-> "Mastering " \o clusters[i].cause,
                description |-> "Based on " \o ToString(Len(cluster)) \o " recent incidents",
                exercises |-> [k \in 1..Len(cluster) |-> generate_exercise(cluster[k])],
                estimated_hours |-> 5 * Len(cluster)]]

\* generate_curriculum on the failures the vector store returned: the
\* modules of the Curriculum; estimated_hours in tenths of an hour
generate_curriculum(failures) ==
    LET clusters == cluster_failures(failures)
    IN  [i \in 1..Len(clusters) |->
           LET cluster == clusters[i].cluster
           IN  [title |-> "Mastering " \o clusters[i].cause,
                description |-> "Based on " \o ToString(Len(cluster)) \o " recent incidents",
                exercises |-> [k \in 1..(IF Len(cluster) < 3 THEN Len(cluster) ELSE 3) |->
                                 generate_exercise(cluster[k])],
                estimated_hours |-> 5 * Len(cluster)]]

\* The vector store has returned up to MaxFailures failures: with a root
\* cause, with the root cause "unknown" or None, or without the key; with
\* one of two titles or without a title.
InitTeaching ==
    /\ Quiescent
    /\ LET causes == {"timeout", "unknown", "None"}
           titles == {"build", "deploy"}
           kinds == {[root_cause |-> c, title |-> t] : c \in causes, t \in titles}
                    \cup {[title |-> t] : t \in titles}
                    \cup {[root_cause |-> c] : c \in causes}
                    \cup {[id |-> 7]}
       IN  \E failures \in UNION {[1..n -> kinds] : n \in 0..MaxFailures} :
             calc = [fn |-> "generate_curriculum", failures |-> failures,
                     done |-> FALSE, modules |-> <<>>]

\* curriculum = await engine.generate_curriculum(team_id)
GenerateCurriculum ==
    /\ calc.fn = "generate_curriculum"
    /\ ~calc.done
    /\ calc' = [calc EXCEPT !.done = TRUE, !.modules = generate_curriculum(calc.failures)]
    /\ UNCHANGED <<inv, redis, issues, faults, config, remediations, angel>>

NextTeaching == GenerateCurriculum

SpecTeaching == InitTeaching /\ [][NextTeaching]_vars

\* ----------------------------------------------------------------------
\* BacklogItem.wsjf (current-state-doc-tool)
\* ----------------------------------------------------------------------
MaxCostOfDelay == 12    \* cost_of_delay lies between -MaxCostOfDelay and MaxCostOfDelay
MaxJobSize == 4         \* job_size lies between -MaxJobSize and MaxJobSize

\* wsjf if only a negative job size were answered with 0.0
wsjf_NegativeOnly(cost_of_delay, job_size) ==
    IF job_size < 0
    THEN [raised |-> FALSE, num |-> 0, den |-> 1]
    ELSE IF job_size = 0
         THEN [raised |-> TRUE, num |-> 0, den |-> 1]
         ELSE LET den == CHOOSE d \in 1..job_size :
                            /\ (cost_of_delay * d) % job_size = 0
                            /\ \A e \in 1..(d - 1) : (cost_of_delay * e) % job_size # 0
              IN  [raised |-> FALSE, num |-> (cost_of_delay * den) \div job_size, den |-> den]

\* The wsjf property: 0.0 for a job size of 0 or less, otherwise
\* float(cost_of_delay) / float(job_size). The quotient is kept as the
\* fraction num/den in lowest terms (0.0 is 0/1); raised tells whether the
\* division raised ZeroDivisionError, as a float division by 0.0 does.
wsjf(cost_of_delay, job_size) ==
    IF job_size <= 0
    THEN [raised |-> FALSE, num |-> 0, den |-> 1]
    ELSE IF job_size = 0
         THEN [raised |-> TRUE, num |-> 0, den |-> 1]
         ELSE LET den == CHOOSE d \in 1..job_size :
                            /\ (cost_of_delay * d) % job_size = 0
                            /\ \A e \in 1..(d - 1) : (cost_of_delay * e) % job_size # 0
              IN  [raised |-> FALSE, num |-> (cost_of_delay * den) \div job_size, den |-> den]

\* a BacklogItem with some cost of delay and some job size
InitWsjf ==
    /\ Quiescent
    /\ \E cost_of_delay \in (-MaxCostOfDelay)..MaxCostOfDelay,
          job_size \in (-MaxJobSize)..MaxJobSize :
         calc = [fn |-> "wsjf", cost_of_delay |-> cost_of_delay, job_size |-> job_size,
                 done |-> FALSE, result |-> [raised |-> FALSE, num |-> 0, den |-> 1]]

\* b.wsjf is read
Wsjf ==
    /\ calc.fn = "wsjf"
    /\ ~calc.done
    /\ calc' = [calc EXCEPT !.done = TRUE, !.result = wsjf(calc.cost_of_delay, calc.job_size)]
    /\ UNCHANGED <<inv, redis, issues, faults, config, remediations, angel>>

NextWsjf == Wsjf

SpecWsjf == InitWsjf /\ [][NextWsjf]_vars

\* ----------------------------------------------------------------------
\* Reading an invocation's trace
\* ----------------------------------------------------------------------
GitHubWriteCalls == {"POST", "PATCH"}
GitHubCalls == {"get_workflow_run", "find_existing_issue", "POST", "PATCH"}
StoreWriteCalls == {"mark_processed", "link_fingerprint_to_issue"}
StrategyCalls == {"can_remediate", "generate_fix"}

\* the calls of these names that invocation d has begun, raised ones included
Attempted(d, names) == {i \in 1..Len(inv[d].trace) : inv[d].trace[i].call \in names}

\* the calls of these names that have returned
Returned(d, names) == {i \in Attempted(d, names) : inv[d].trace[i].ok}

\* the issues of a repository that the handler invocation d created
CreatedBy(d) ==
    {n \in 1..Len(issues[RepoOf(d)]) : issues[RepoOf(d)][n].by = d}

Delivered(d) == inv[d].payload \in KnownRuns

\* the idempotency check of d answered "not processed"
PassedCheck(d) ==
    /\ Len(inv[d].trace) >= 1
    /\ inv[d].trace[1] = Call("is_processed", 0, TRUE)

FailingConclusions == {"failure", "timed_out", "cancelled"}

\* ----------------------------------------------------------------------
\* C1 (code bug): two deliveries of one failing run that are handled at the
\* same time are reconciled by the idempotency check: at most one of them
\* gets past it, at most one issue is POSTed and at most one of them writes
\* to GitHub.
\* The handler checks (is_processed) and sets (mark_processed) in two
\* separate calls, so both deliveries pass the check.
\* ----------------------------------------------------------------------
Overlapping(d, e) ==
    /\ d # e
    /\ Delivered(d) /\ Delivered(e)
    /\ inv[d].payload = inv[e].payload
    /\ inv[d].pc # "error" /\ inv[e].pc # "error"
    /\ d \notin inv[e].after /\ e \notin inv[d].after

C1_AtomicCheckAndClaim ==
    \A d, e \in Slots :
        (Overlapping(d, e) /\ RunOf(d).conclusion \in FailingConclusions) =>
            /\ ~(PassedCheck(d) /\ PassedCheck(e))
            /\ Cardinality(Returned(d, {"POST"})) + Cardinality(Returned(e, {"POST"})) <= 1
            /\ ~(Attempted(d, GitHubWriteCalls) # {} /\ Attempted(e, GitHubWriteCalls) # {})

\* the issue number the search of invocation d returned (0: none)
FoundBy(d) ==
    LET i == CHOOSE i \in Returned(d, {"find_existing_issue"}) : TRUE
    IN inv[d].trace[i].num

MarkedBy(d) == Returned(d, {"mark_processed"}) # {}

\* ----------------------------------------------------------------------
\* C2 as stated: when the handler is called for a failing run, completes
\* without error, and is then called again with the same run id, the second
\* call attempts no GitHub write and no StateStore write and exactly one
\* issue has been created by the two calls in total.
\* Violated where the first call's search found an issue whose title quotes
\* the hash: the first call updated it and no issue was created.
\* ----------------------------------------------------------------------
C2_ExactlyOneIssueCreated ==
    \A e \in Slots : \A d \in inv[e].after :
        (inv[d].payload = inv[e].payload /\ inv[d].outcome = "triaged") =>
            /\ Attempted(e, GitHubWriteCalls) = {}
            /\ Attempted(e, StoreWriteCalls) = {}
            /\ Cardinality(CreatedBy(d) \cup CreatedBy(e)) = 1

\* ----------------------------------------------------------------------
\* C2 (amended): sequential idempotence.  When the handler is called for a
\* failing run, completes without error, and is then called again with the
\* same run id, the second call attempts no GitHub write and no StateStore
\* write; the first call made exactly one issue write, and the two calls
\* together created exactly one issue if the first call's search found
\* none, and no issue if it found one (which the first call then updated).
\* ----------------------------------------------------------------------
C2_SequentialIdempotence ==
    \A e \in Slots : \A d \in inv[e].after :
        (inv[d].payload = inv[e].payload /\ inv[d].outcome = "triaged") =>
            /\ Attempted(e, GitHubWriteCalls) = {}
            /\ Attempted(e, StoreWriteCalls) = {}
            /\ Cardinality(Returned(d, GitHubWriteCalls)) = 1
            /\ CreatedBy(e) = {}
            /\ Cardinality(CreatedBy(d)) = (IF FoundBy(d) = 0 THEN 1 ELSE 0)
            /\ Cardinality(Returned(d, {"POST"})) + Cardinality(Returned(e, {"POST"}))
                 = (IF FoundBy(d) = 0 THEN 1 ELSE 0)

C2_Witness ==
    \E e \in Slots : \E d \in inv[e].after :
        /\ inv[d].payload = inv[e].payload
        /\ inv[d].outcome = "triaged"
        /\ FoundBy(d) = 0
        /\ inv[e].pc = "done"

\* ----------------------------------------------------------------------
\* C3: when the operation is already in the ledger at the time the handler
\* checks, the check is the handler's only call: its step changes neither
\* the StateStore nor GitHub, and the invocation ends there with no GitHub
\* call, no StateStore write and no strategy call.
\* ----------------------------------------------------------------------
C3_ProcessedIsNoOp ==
    /\ [](\A d \in Slots :
            (Len(inv[d].trace) >= 1 /\ inv[d].trace[1] = Call("is_processed", 1, TRUE)) =>
                /\ Len(inv[d].trace) = 1
                /\ inv[d].pc = "done")
    /\ [][\A d \in Slots :
            (/\ inv[d].pc = "is_processed"
             /\ OpKey(OperationId(inv[d].payload)) \in DOMAIN redis
             /\ inv'[d] # inv[d])
            => /\ redis' = redis
               /\ issues' = issues
               /\ inv'[d].pc \in {"done", "error"}
               /\ Len(inv'[d].trace) = 1
               /\ inv'[d].trace[1].call = "is_processed"]_vars

C3_Witness ==
    \E d \in Slots :
        /\ inv[d].pc = "done"
        /\ inv[d].trace = <<Call("is_processed", 1, TRUE)>>
        /\ OpKey(OperationId(inv[d].payload)) \in DOMAIN redis

\* ----------------------------------------------------------------------
\* C4 (code bug): invocations that run one after the other and complete,
\* for distinct failing runs of one repository with the same
\* (workflow name, conclusion, event, matrix key), create one issue: every
\* later invocation PATCHes the issue of the earlier one and POSTs nothing.
\* ----------------------------------------------------------------------
C4_OneIssuePerSignature ==
    \A e \in Slots : \A d \in inv[e].after :
        (/\ inv[d].payload # inv[e].payload
         /\ RepoOf(d) = RepoOf(e)
         /\ FpOf(d) = FpOf(e)
         /\ inv[d].outcome = "triaged"
         /\ inv[e].outcome = "triaged")
        => /\ Returned(e, {"POST"}) = {}
           /\ \E i \in Returned(e, {"PATCH"}) : inv[e].trace[i].num = inv[d].issue_number

\* ----------------------------------------------------------------------
\* C5: an invocation in which a port call raised has not marked the
\* operation processed; unless another invocation has marked it, the
\* operation is absent from the ledger, and a later delivery of the same
\* event passes the idempotency check and goes on to fetch the run.  Of the
\* other invocations for the event each had raised when the later delivery
\* was entered, or has not marked the operation, or was entered after the
\* later delivery had ended.
\* ----------------------------------------------------------------------
C5_AbortLeavesUnprocessed ==
    \A d \in Slots :
        inv[d].pc = "error" =>
            /\ ~MarkedBy(d)
            /\ (\A e \in Slots : inv[e].payload = inv[d].payload => ~MarkedBy(e))
                 => OpKey(OperationId(inv[d].payload)) \notin DOMAIN redis
            /\ \A e \in Slots :
                 (/\ e > d
                  /\ inv[e].payload = inv[d].payload
                  /\ \A f \in Slots \ {e} :
                       inv[f].payload = inv[e].payload =>
                           \/ f \in inv[e].failed
                           \/ ~MarkedBy(f)
                           \/ e \in inv[f].after \cup inv[f].failed
                  /\ Len(inv[e].trace) >= 1
                  /\ inv[e].trace[1].ok)
                 => /\ PassedCheck(e)
                    /\ inv[e].pc # "done" \/ Len(inv[e].trace) >= 2
                    /\ Len(inv[e].trace) >= 2 => inv[e].trace[2].call = "get_workflow_run"

\* a strategy's generate_fix raised after the issue and the link had been
\* written; the event was delivered again, passed the check and was fetched
C5_Witness ==
    \E d, e \in Slots :
        /\ d \in inv[e].failed
        /\ inv[e].payload = inv[d].payload
        /\ inv[d].pc = "error"
        /\ Returned(d, {"POST"}) # {}
        /\ Returned(d, {"link_fingerprint_to_issue"}) # {}
        /\ inv[d].trace[Len(inv[d].trace)] = Call("generate_fix", 0, FALSE)
        /\ PassedCheck(e)
        /\ Returned(e, {"get_workflow_run"}) # {}

\* ----------------------------------------------------------------------
\* C7 (code bug): when a delivery created the issue and then raised before
\* the link or the ledger entry was written, the retried delivery updates
\* that issue (PATCH of its number) and creates no second one.
\* ----------------------------------------------------------------------
C7_RetryUpdatesCreatedIssue ==
    \A d, e \in Slots :
        (/\ d \in inv[e].failed
         /\ Delivered(d)
         /\ inv[e].payload = inv[d].payload
         /\ inv[d].pc = "error"
         /\ Returned(d, {"POST"}) # {}
         /\ Returned(e, GitHubWriteCalls) # {})
        => /\ Returned(e, {"POST"}) = {}
           /\ \A i \in Returned(e, {"PATCH"}) : inv[e].trace[i].num = inv[d].issue_number

\* ----------------------------------------------------------------------
\* C8: in every invocation each issue write follows at once on a returned
\* find_existing_issue; the write is a PATCH of the found number exactly
\* when the search found an issue and a POST otherwise; there is one search
\* and one write per call, and the issues on GitHub show exactly the POSTs
\* and PATCHes that returned.
\* ----------------------------------------------------------------------
C8_SearchThenOneWrite ==
    /\ \A d \in Slots :
         LET tr == inv[d].trace IN
         /\ \A i \in Attempted(d, GitHubWriteCalls) :
              /\ i > 1
              /\ tr[i - 1].call = "find_existing_issue"
              /\ tr[i - 1].ok
              /\ tr[i].call = "PATCH" <=> tr[i - 1].num # 0
              /\ (tr[i].ok /\ tr[i].call = "PATCH") => tr[i].num = tr[i - 1].num
         /\ Cardinality(Attempted(d, {"find_existing_issue"})) <= 1
         /\ Cardinality(Attempted(d, GitHubWriteCalls)) <= 1
         /\ (Returned(d, {"find_existing_issue"}) # {} /\ inv[d].pc # "issue_write")
              => Cardinality(Attempted(d, GitHubWriteCalls)) = 1
         /\ Delivered(d) => Cardinality(CreatedBy(d)) = Cardinality(Returned(d, {"POST"}))
    /\ \A r \in Repos : \A n \in 1..Len(issues[r]) :
         issues[r][n].updates =
             Cardinality({d \in Slots :
                            /\ Delivered(d)
                            /\ RepoOf(d) = r
                            /\ \E i \in Returned(d, {"PATCH"}) : inv[d].trace[i].num = n})

C8_Witness ==
    \E d, e \in Slots :
        /\ Returned(d, {"PATCH"}) # {}
        /\ Returned(e, {"POST"}) # {}

\* ----------------------------------------------------------------------
\* C9 (code bug): a closed issue is never returned by find_existing_issue
\* and never PATCHed.
\* ----------------------------------------------------------------------
C9_OnlyOpenIssuesMatched ==
    \A r \in Repos : \A n \in 1..Len(issues[r]) :
        issues[r][n].state = "closed" =>
            /\ issues[r][n].updates = 0
            /\ \A d \in Slots : (Delivered(d) /\ RepoOf(d) = r) => inv[d].existing # n

\* ----------------------------------------------------------------------
\* C10: when the fetched run's conclusion is success, skipped, neutral or
\* action_required, the only thing the handler still does is to mark the
\* operation processed with {"action": "none", "reason": "success"}: no
\* search, no issue write, no fingerprint link, no strategy call.
\* ----------------------------------------------------------------------
NonFailureConclusions == {"success", "skipped", "neutral", "action_required"}

C10_NonFailureMarkedSuccess ==
    \A d \in Slots :
        (/\ Delivered(d)
         /\ RunOf(d).conclusion \in NonFailureConclusions
         /\ Returned(d, {"get_workflow_run"}) # {})
        => /\ inv[d].pc \in {"mark_success", "done", "error"}
           /\ Attempted(d, {"find_existing_issue", "POST", "PATCH",
                            "link_fingerprint_to_issue"} \cup StrategyCalls) = {}
           /\ CreatedBy(d) = {}
           /\ FpKey(inv[d].payload.owner, inv[d].payload.repo, FingerprintHash(FpOf(d)))
                \notin DOMAIN redis
           /\ inv[d].pc = "done" =>
                /\ inv[d].trace[Len(inv[d].trace)] = Call("mark_processed", 0, TRUE)
                /\ redis[OpKey(OperationId(inv[d].payload))]
                     = [action |-> "none", reason |-> "success"]

C10_Witness ==
    \E d \in Slots :
        /\ Delivered(d)
        /\ RunOf(d).conclusion = "action_required"
        /\ inv[d].pc = "done"
        /\ Len(inv[d].trace) = 3

\* ----------------------------------------------------------------------
\* C6: under at-least-once delivery, with ports that eventually stop
\* failing, every delivered event is eventually in the ledger; and at all
\* times an invocation that raised has not marked its operation, a ledger
\* entry of a failing run is a "triaged" entry whose issue exists on GitHub
\* and whose fingerprint is linked, and a ledger entry of any other run is
\* the "success" entry.
\* ----------------------------------------------------------------------
LedgerEntryBacked(rid) ==
    LET entry == redis[OpKey(OperationId(rid))] IN
    IF GitHubRun(rid).conclusion \in FailingConclusions
    THEN /\ entry.action = "triaged"
         /\ entry.issue_number \in 1..Len(issues[RepoName(rid.owner, rid.repo)])
         /\ FpKey(rid.owner, rid.repo, FingerprintHash(fingerprint(GitHubRun(rid))))
              \in DOMAIN redis
    ELSE entry = [action |-> "none", reason |-> "success"]

C6_EventuallyProcessed ==
    /\ \A d \in Slots :
         Delivered(d) ~> (OpKey(OperationId(inv[d].payload)) \in DOMAIN redis)
    /\ [](\A d \in Slots : inv[d].pc = "error" => ~MarkedBy(d))
    /\ [](\A rid \in KnownRuns :
            OpKey(OperationId(rid)) \in DOMAIN redis => LedgerEntryBacked(rid))

C6_Witness ==
    \E d \in Slots :
        /\ inv[d].attempt >= 2
        /\ inv[d].pc = "done"
        /\ inv[d].outcome = "triaged"
        /\ OpKey(OperationId(inv[d].payload)) \in DOMAIN redis

\* ----------------------------------------------------------------------
\* C11: within one invocation for a failing run the port calls happen in the
\* order is_processed, get_workflow_run, create_or_update_issue (its search,
\* then its one write), link_fingerprint_to_issue, the strategy calls,
\* mark_processed; each call but the strategy calls happens at most once,
\* and mark_processed is begun only after the issue write and the
\* fingerprint link have returned.
\* ----------------------------------------------------------------------
StepOf(call) ==
    CASE call = "is_processed" -> 1
      [] call = "get_workflow_run" -> 2
      [] call = "find_existing_issue" -> 3
      [] call \in GitHubWriteCalls -> 4
      [] call = "link_fingerprint_to_issue" -> 5
      [] call \in StrategyCalls -> 6
      [] call = "mark_processed" -> 7

C11_PortCallOrder ==
    \A d \in Slots :
        (Delivered(d) /\ RunOf(d).conclusion \in FailingConclusions) =>
            LET t == inv[d].trace IN
            /\ \A i \in 1..(Len(t) - 1) :
                  \/ StepOf(t[i].call) < StepOf(t[i + 1].call)
                  \/ {t[i].call, t[i + 1].call} \subseteq StrategyCalls
            /\ \A m \in Attempted(d, {"mark_processed"}) :
                  /\ \E w \in Returned(d, GitHubWriteCalls) : w < m
                  /\ \E l \in Returned(d, {"link_fingerprint_to_issue"}) : l < m

\* a failing run handled to the end, with strategy calls between the link
\* and the ledger write
C11_Witness ==
    \E d \in Slots :
        /\ Delivered(d)
        /\ RunOf(d).conclusion \in FailingConclusions
        /\ inv[d].pc = "done"
        /\ inv[d].outcome = "triaged"
        /\ Attempted(d, StrategyCalls) # {}
        /\ Len(inv[d].trace) >= 7

\* ----------------------------------------------------------------------
\* C12 (code bug): when the handler completes for a failing run, the store
\* holds under (owner, repo, fingerprint hash of the run) the decimal string
\* of the issue number that the issue write of this invocation returned,
\* and get_issue_for_fingerprint with that key answers that number; no step
\* of the invocation changes what get_issue_for_fingerprint answers for the
\* same hash under another repository.
\* Two invocations for one failure signature that are in flight together
\* both POST an issue and both write the link: the one that links first
\* completes while the key holds the other's number.
\* ----------------------------------------------------------------------
OtherRepos(rid) ==
    {other \in KnownRuns : RepoName(other.owner, other.repo) # RepoName(rid.owner, rid.repo)}

WrittenNumber(d) ==
    LET w == CHOOSE i \in Returned(d, GitHubWriteCalls) : TRUE IN inv[d].trace[w].num

C12_FingerprintLinked ==
    [][\A d \in Slots :
         LET rid == inv[d].payload
             fp_hash == FingerprintHash(FpOf(d))
         IN /\ (inv[d].pc = "mark_processed" /\ inv'[d].pc = "done") =>
                  /\ FpKey(rid.owner, rid.repo, fp_hash) \in DOMAIN redis'
                  /\ redis'[FpKey(rid.owner, rid.repo, fp_hash)] = ToString(WrittenNumber(d))
                  /\ get_issue_for_fingerprint(redis', rid.owner, rid.repo, fp_hash)
                       = WrittenNumber(d)
            /\ (InFlight(d) /\ is_failure(RunOf(d)) /\ inv'[d] # inv[d]) =>
                  \A other \in OtherRepos(rid) :
                      get_issue_for_fingerprint(redis', other.owner, other.repo, fp_hash)
                        = get_issue_for_fingerprint(redis, other.owner, other.repo, fp_hash)
    ]_vars

\* ----------------------------------------------------------------------
\* C13: the strategies are asked in registration order, each at most once;
\* a strategy wins when it accepts the run and its fix has a confidence of
\* at least 90 percent (90 itself included); no strategy is asked after a
\* winner, the handler reports a remediation exactly when the strategy
\* asked last won, and a strategy that declines, answers None or answers
\* below 90 is followed by the next one (by the ledger write after the last
\* one) without the handler raising.
\* ----------------------------------------------------------------------
Wins(answer) == answer.can /\ answer.confidence >= 90

C13_FirstConfidentFixWins ==
    \A d \in Slots :
        LET a == inv[d].answers IN
        /\ \A k \in 1..Len(a) : a[k].strategy = k
        /\ \A k \in 1..(Len(a) - 1) : ~Wins(a[k])
        /\ inv[d].remediation <=> (Len(a) > 0 /\ Wins(a[Len(a)]))
        /\ inv[d].remediation => inv[d].idx = Len(a)
        /\ (Len(a) > 0 /\ ~Wins(a[Len(a)]) /\ Len(a) < Len(remediations)) =>
              \/ inv[d].pc \in {"can_remediate", "generate_fix"} /\ inv[d].idx = Len(a) + 1
              \/ inv[d].pc = "error"
        /\ (Len(a) > 0 /\ ~Wins(a[Len(a)]) /\ Len(a) = Len(remediations)) =>
              inv[d].pc \in {"mark_processed", "done", "error"}
        /\ inv[d].pc = "error" => ~inv[d].trace[Len(inv[d].trace)].ok

\* the first strategy answered a fix just below the threshold, the second a
\* fix exactly at the threshold, and the handler completed with a remediation
C13_Witness ==
    \E d \in Slots :
        /\ inv[d].pc = "done"
        /\ inv[d].outcome = "triaged"
        /\ inv[d].remediation
        /\ inv[d].answers = <<Answer(1, TRUE, 89), Answer(2, TRUE, 90)>>

\* ----------------------------------------------------------------------
\* Reading a webhook request
\* ----------------------------------------------------------------------
Served(d) == inv[d].request # NoRequest

\* the signature header is "sha256=" + HMAC-SHA256(secret, raw body)
SignedRight(req) ==
    req.x_hub_signature_256 = "sha256=" \o HmacSha256Hex(WEBHOOK_SECRET, req.body)

Triggers(req) ==
    req.x_github_event = "workflow_run" /\ json_loads(req.body).action = "completed"

\* ----------------------------------------------------------------------
\* C14: a request whose signature header is missing or is not "sha256=" +
\* HMAC-SHA256(secret, raw body) is answered 401 "Invalid signature", the
\* handler is not entered for it and no port call is made for it.
\* ----------------------------------------------------------------------
C14_BadSignatureRejected ==
    \A d \in Slots :
        (Served(d) /\ ~SignedRight(inv[d].request)) =>
            /\ WebhookResponse(inv[d]) = [status |-> 401, detail |-> "Invalid signature"]
            /\ inv[d].payload = NoRunId
            /\ inv[d].trace = <<>>

\* ----------------------------------------------------------------------
\* C15: for a correctly signed request the handler is entered (with the run
\* the body names) exactly when the event header is "workflow_run" and the
\* action of the body is "completed"; any other correctly signed request is
\* answered "ignored", the handler is not entered and no port call is made.
\* ----------------------------------------------------------------------
C15_RoutesOnEventAndAction ==
    \A d \in Slots :
        (Served(d) /\ SignedRight(inv[d].request)) =>
            IF Triggers(inv[d].request)
            THEN /\ inv[d].pc \in AwaitPcs \cup {"done", "error"}
                 /\ inv[d].payload = json_loads(inv[d].request.body).run_id
                 /\ inv[d].pc \in {"done", "error"} => inv[d].trace # <<>>
            ELSE /\ inv[d].pc = "ignored"
                 /\ WebhookResponse(inv[d]) = [status |-> 200, detail |-> "ignored"]
                 /\ inv[d].payload = NoRunId
                 /\ inv[d].trace = <<>>

\* a correctly signed push event whose body says "completed" was ignored,
\* a correctly signed workflow_run event with action "requested" was
\* ignored, and a correctly signed workflow_run/completed event was handled
C15_Witness ==
    \E d, e \in Slots :
        /\ inv[d].request \in
             {Request(BodyCompleted1, "push", ExpectedSignature(BodyCompleted1, WEBHOOK_SECRET)),
              Request(BodyRequested1, "workflow_run",
                      ExpectedSignature(BodyRequested1, WEBHOOK_SECRET))}
        /\ inv[d].pc = "ignored"
        /\ inv[e].request =
             Request(BodyCompleted1, "workflow_run",
                     ExpectedSignature(BodyCompleted1, WEBHOOK_SECRET))
        /\ inv[e].pc = "done"
        /\ inv[e].outcome = "triaged"

\* ----------------------------------------------------------------------
\* C16: a correctly signed workflow_run/completed request that has been
\* answered has been answered "processed".
\* ----------------------------------------------------------------------
C16_AlwaysAcknowledged ==
    \A d \in Slots :
        (/\ Served(d)
         /\ SignedRight(inv[d].request)
         /\ Triggers(inv[d].request)
         /\ WebhookResponse(inv[d]) # NoResponse) =>
            WebhookResponse(inv[d]) = [status |-> 200, detail |-> "processed"]

\* ----------------------------------------------------------------------
\* C17: the hash is a function of the four fields (hashing again gives the
\* same hash, equal fingerprints give equal hashes), and two fingerprints
\* that differ in exactly one field have different hashed contents and
\* different hashes.
\* ----------------------------------------------------------------------
FieldsThatDiffer(a, b) ==
    {f \in {"workflow_name", "conclusion", "event", "matrix_key"} : a[f] # b[f]}

C17_HashSeparatesFingerprints ==
    (calc.fn = "hash" /\ calc.returned) =>
        LET a == calc.args[1]
            b == calc.args[2]
            r == calc.result
        IN /\ Len(r) = 4 => (r[3] = r[1] /\ r[4] = r[2])
           /\ a = b => r[1].hash = r[2].hash
           /\ Cardinality(FieldsThatDiffer(a, b)) = 1 =>
                (r[1].content # r[2].content /\ r[1].hash # r[2].hash)

\* ----------------------------------------------------------------------
\* C18: two calls of generate_issue with the same run, hash and config
\* return the same title, body and labels, whenever they are made, and the
\* title is the prefix, "CI Failure: ", the workflow name and the first
\* eight characters of the hash in square brackets.
\* ----------------------------------------------------------------------
C18_GenerateIssuePure ==
    (calc.fn = "generate_issue" /\ Len(calc.result) = 2) =>
        /\ calc.result[1].title = calc.result[2].title
        /\ calc.result[1].body = calc.result[2].body
        /\ calc.result[1].labels = calc.result[2].labels
        /\ calc.result[1].title =
             calc.args.config.issue_prefix \o "CI Failure: " \o calc.args.run.name \o " ["
                \o SubSeq(calc.args.fingerprint_hash, 1, 8) \o "]"

\* ----------------------------------------------------------------------
\* C19: the health score is 100 minus the sum of severity * confidence * 20
\* over the signals, and 0 where that is negative; it lies between 0 and
\* 100; it is 100 for no signal, 80 for one signal of severity 1.0 and
\* confidence 1.0, and 0 for five or more such signals.
\* ----------------------------------------------------------------------
FullSignal == HealthSignal(100, 100)

AllFull(signals) == \A i \in 1..Len(signals) : signals[i] = FullSignal

C19_HealthScoreClamped ==
    (calc.fn = "health" /\ calc.scored) =>
        LET raw == Points(100) - Penalty(calc.signals) IN
        /\ raw >= 0 => calc.score = raw
        /\ raw < 0 => calc.score = 0
        /\ calc.score \in 0..Points(100)
        /\ calc.signals = <<>> => calc.score = Points(100)
        /\ calc.signals = <<FullSignal>> => calc.score = Points(80)
        /\ (Len(calc.signals) >= 5 /\ AllFull(calc.signals)) => calc.score = 0

\* six signals of severity 1.0 and confidence 1.0 were scored 0
C19_Witness ==
    /\ calc.fn = "health"
    /\ calc.scored
    /\ Len(calc.signals) = 6
    /\ AllFull(calc.signals)
    /\ calc.score = 0

\* ----------------------------------------------------------------------
\* C20: is_healthy answers true exactly when the overall score is above 80
\* and no signal has both a severity above 0.8 and a confidence above 0.7;
\* a score of 85 with one signal of severity 0.9 and confidence 0.8 is
\* unhealthy, and so is a score of exactly 80.
\* ----------------------------------------------------------------------
Alarming(signal) == signal.severity > 80 /\ signal.confidence > 70

C20_HealthyIffAbove80AndCalm ==
    (calc.fn = "health" /\ calc.asked) =>
        LET h == calc.health IN
        /\ calc.healthy =>
             /\ h.overall_score > Points(80)
             /\ \A i \in 1..Len(h.signals) : ~Alarming(h.signals[i])
        /\ ~calc.healthy =>
             \/ h.overall_score <= Points(80)
             \/ \E i \in 1..Len(h.signals) : Alarming(h.signals[i])
        /\ (h.overall_score = Points(85) /\ h.signals = <<HealthSignal(90, 80)>>) =>
             ~calc.healthy
        /\ h.overall_score = Points(80) => ~calc.healthy

\* a repository with score 85 and the one signal 0.9/0.8 was found unhealthy
C20_Witness ==
    /\ calc.fn = "health"
    /\ calc.asked
    /\ calc.health = RepositoryHealth(Points(85), <<HealthSignal(90, 80)>>)
    /\ ~calc.healthy

\* ----------------------------------------------------------------------
\* Reading an oracle call
\* ----------------------------------------------------------------------
\* oracle o has been run to its end on the call's arguments
Divined(o) == calc.fn = "divine" /\ calc.oracle = o /\ calc.done

\* the tests given to the call that have at least five outcomes
JudgedTests ==
    {t \in {calc.history.test_results[i] : i \in 1..Len(calc.history.test_results)} :
       t.total >= 5}

\* the signals the call yielded for test t
SignalsFor(t) ==
    {i \in 1..Len(calc.signals) : calc.signals[i].evidence.test_name = t.test_name}

\* ----------------------------------------------------------------------
\* C21 as stated: the flakiness severity is 1.0 at success rate 0.5, is 0.0
\* at success rates 0.1 and 0.9, and for every test with at least five
\* outcomes lies within [0, 1].
\* ----------------------------------------------------------------------
C21_SeverityZeroAtTenth ==
    Divined("FlakinessOracle") =>
        \A t \in JudgedTests :
            /\ 2 * t.passed = t.total => FlakinessSeverity(t) = 100
            /\ (10 * t.passed = t.total \/ 10 * t.passed = 9 * t.total) =>
                 FlakinessSeverity(t) = 0
            /\ FlakinessSeverity(t) \in 0..100
            /\ \A i \in SignalsFor(t) : calc.signals[i].severity \in 0..100

\* C21 as amended: the flakiness severity is 1.0 at success rate 0.5, where
\* a signal carries it; at success rates 0.1 and 0.9 it is 0.2 and no signal
\* is yielded; it is 0.0 only when all outcomes agree; for every test with
\* at least five outcomes it lies within [0, 1], and so does the severity of
\* every signal yielded.
C21_SeverityFifthAtTenth ==
    Divined("FlakinessOracle") =>
        \A t \in JudgedTests :
            /\ 2 * t.passed = t.total =>
                 /\ FlakinessSeverity(t) = 100
                 /\ \E i \in SignalsFor(t) : calc.signals[i].severity = 100
            /\ (10 * t.passed = t.total \/ 10 * t.passed = 9 * t.total) =>
                 /\ FlakinessSeverity(t) = 20
                 /\ SignalsFor(t) = {}
            /\ FlakinessSeverity(t) = 0 <=> t.passed \in {0, t.total}
            /\ FlakinessSeverity(t) \in 0..100
            /\ \A i \in SignalsFor(t) :
                 /\ calc.signals[i].severity = FlakinessSeverity(t)
                 /\ calc.signals[i].severity \in 0..100

\* the oracle has judged a test that passed once in ten outcomes
C21_Witness ==
    /\ Divined("FlakinessOracle")
    /\ \E t \in JudgedTests : t.total = 10 /\ t.passed = 1

\* the durations of the call's history that lie in the 30-day window
WindowDurations == get_durations(calc.history, 30)

\* the sums of its last five and of its first five durations
LastFive ==
    LET d == WindowDurations
        n == Len(d)
    IN  d[n - 4] + d[n - 3] + d[n - 2] + d[n - 1] + d[n]

FirstFive ==
    LET d == WindowDurations
    IN  d[1] + d[2] + d[3] + d[4] + d[5]

\* ----------------------------------------------------------------------
\* C22: DurationOracle yields a signal exactly when the 30-day window holds
\* at least ten durations and the mean of the last five is strictly greater
\* than 1.2 times the mean of the first five; the signal then has severity
\* min((recent / older - 1) * 2, 1.0) and confidence 0.9.
\* ----------------------------------------------------------------------
C22_TriggersStrictlyAbove ==
    Divined("DurationOracle") =>
        /\ ~calc.raised
        /\ Len(calc.signals) <= 1
        /\ calc.signals # <<>> <=>
             (Len(WindowDurations) >= 10 /\ 5 * LastFive > 6 * FirstFive)
        /\ calc.signals # <<>> =>
             /\ calc.signals[1].dimension = "duration"
             /\ calc.signals[1].confidence = 90
             /\ calc.signals[1].severity =
                  (IF 200 * (LastFive - FirstFive) < 100 * FirstFive
                   THEN (200 * (LastFive - FirstFive)) \div FirstFive
                   ELSE 100)

\* the positions in a file's log of the commits not by the author of its
\* newest commit
OthersTouches(file) == {i \in 1..Len(file.log) : file.log[i].author # file.log[1].author}

\* the signals the call yielded for a file
SignalsAbout(file) ==
    {i \in 1..Len(calc.signals) : calc.signals[i].evidence.file = file.path}

\* ----------------------------------------------------------------------
\* C29: KnowledgeSiloOracle yields a signal for a file exactly when its last
\* 20 commits are non-empty and share one author; the signal has severity
\* 0.6 and confidence 0.8, names that author, and carries the timestamp of
\* the most recent commit by any other author, or none if there is no such
\* commit.
\* ----------------------------------------------------------------------
C29_SiloSignalCarriesLastOthersTouch ==
    Divined("KnowledgeSiloOracle") =>
        \A k \in 1..Len(calc.files) :
            LET file == calc.files[k]
                last == IF Len(file.log) < 20 THEN Len(file.log) ELSE 20
            IN  /\ SignalsAbout(file) # {} <=>
                     /\ last > 0
                     /\ \A i \in 1..last : file.log[i].author = file.log[1].author
                /\ \A s \in SignalsAbout(file) :
                     /\ calc.signals[s].dimension = "knowledge"
                     /\ calc.signals[s].severity = 60
                     /\ calc.signals[s].confidence = 80
                     /\ calc.signals[s].evidence.sole_author = file.log[1].author
                     /\ calc.signals[s].evidence.last_others_touch =
                          (IF OthersTouches(file) = {}
                           THEN "None"
                           ELSE isoformat(file.log[CHOOSE i \in OthersTouches(file) :
                                              \A j \in OthersTouches(file) : i <= j].committed_at))

\* ----------------------------------------------------------------------
\* Reading a checkup's record
\* ----------------------------------------------------------------------
\* the positions of the record where one of these steps was taken for signal i
StepsFor(i, ops) ==
    {n \in 1..Len(angel.trace) : angel.trace[n].signal = i /\ angel.trace[n].op \in ops}

\* the signals of the health the intervention pass goes through
PassSignals == 1..Len(angel.health.signals)

\* an intervention pass is under way or over
InPass == angel.pc \in {"intervene", "get_file_content", "create_pr", "send_channel",
                        "create_issue", "returned"}

\* the registration index of an intervention
Registered(by) == CHOOSE k \in 1..Len(interventions) : interventions[k] = by

\* ----------------------------------------------------------------------
\* C23: an oracle that raises while divining or prophesying does not abort
\* the checkup; the remaining oracles are run and the health is returned.
\* ----------------------------------------------------------------------
C23_OracleFailureTolerated ==
    angel.pc = "raised" => angel.raised_at \notin {oracles[o] : o \in 1..Len(oracles)}

\* ----------------------------------------------------------------------
\* C24: in one intervention pass at most one intervention is executed for a
\* signal: none for a severity below 0.5; otherwise the first intervention
\* in registration order whose can_address is true, none if there is none,
\* and no later intervention is asked or executed for that signal.
\* ----------------------------------------------------------------------
C24_FirstClaimingInterventionOnly ==
    InPass =>
        \A i \in PassSignals :
            LET signal == angel.health.signals[i]
                asked == StepsFor(i, {"can_address"})
                executed == StepsFor(i, {"execute"})
                claiming == {k \in 1..Len(interventions) :
                               can_address(interventions[k], signal)}
            IN  /\ Cardinality(executed) <= 1
                /\ signal.severity < 50 => asked = {} /\ executed = {}
                /\ \A n \in executed :
                     /\ signal.severity >= 50
                     /\ Registered(angel.trace[n].by) \in claiming
                     /\ \A k \in claiming : Registered(angel.trace[n].by) <= k
                     /\ \A m \in asked :
                          /\ m < n
                          /\ Registered(angel.trace[m].by) <= Registered(angel.trace[n].by)
                /\ (angel.pc = "returned" /\ signal.severity >= 50) =>
                     /\ claiming # {} => Cardinality(executed) = 1
                     /\ claiming = {} =>
                          /\ executed = {}
                          /\ Cardinality(asked) = Len(interventions)

\* a pass is over in which a flaky test of severity 0.4 got no intervention
\* and one of severity 0.8 got the quarantine, the first registered
C24_Witness ==
    /\ angel.pc = "returned"
    /\ Len(angel.health.signals) = 2
    /\ angel.health.signals[1].severity = 40
    /\ StepsFor(1, {"can_address", "execute"}) = {}
    /\ angel.health.signals[2].severity = 80
    /\ \E n \in StepsFor(2, {"execute"}) : angel.trace[n].by = interventions[1]

\* ----------------------------------------------------------------------
\* C25: FlakyQuarantineIntervention claims a signal exactly when it is a
\* flakiness signal of severity above 0.7 (0.7 itself is not claimed),
\* KnowledgeSharingIntervention exactly when it is a knowledge-silo signal;
\* so a pass opens a quarantine pull request only for flakiness signals
\* above 0.7, a documentation issue only for silo signals, and nothing for
\* a signal of another dimension.
\* ----------------------------------------------------------------------
C25_ClaimsByDimensionAndSeverity ==
    InPass =>
        \A i \in PassSignals :
            LET signal == angel.health.signals[i]
            IN  /\ \A n \in StepsFor(i, {"can_address"}) :
                     angel.trace[n].answer <=>
                        \/ /\ angel.trace[n].by = "FlakyQuarantineIntervention"
                           /\ signal.dimension = "flakiness"
                           /\ signal.severity > 70
                        \/ /\ angel.trace[n].by = "KnowledgeSharingIntervention"
                           /\ signal.dimension = "knowledge"
                /\ StepsFor(i, {"quarantine"}) # {} =>
                     signal.dimension = "flakiness" /\ signal.severity > 70
                /\ StepsFor(i, {"knowledge_request"}) # {} => signal.dimension = "knowledge"
                /\ signal.dimension \notin {"flakiness", "knowledge"} =>
                     StepsFor(i, {"execute", "quarantine", "knowledge_request"}) = {}
                /\ (signal.dimension = "flakiness" /\ signal.severity <= 70) =>
                     StepsFor(i, {"execute", "quarantine", "knowledge_request"}) = {}
                /\ angel.pc = "returned" =>
                     /\ (signal.dimension = "flakiness" /\ signal.severity > 70) =>
                          StepsFor(i, {"quarantine"}) # {}
                     /\ (signal.dimension = "knowledge" /\ signal.severity >= 50) =>
                          StepsFor(i, {"knowledge_request"}) # {}

\* a pass is over in which a flakiness signal of severity exactly 0.7 was
\* asked about and not claimed, and one of severity 0.8 got its pull request
C25_Witness ==
    /\ angel.pc = "returned"
    /\ Len(angel.health.signals) = 2
    /\ angel.health.signals[1].dimension = "flakiness"
    /\ angel.health.signals[1].severity = 70
    /\ Cardinality(StepsFor(1, {"can_address"})) = 2
    /\ StepsFor(1, {"execute"}) = {}
    /\ angel.health.signals[2].severity = 80
    /\ StepsFor(2, {"quarantine"}) # {}
    /\ Len(angel.prs) = 1

\* ----------------------------------------------------------------------
\* C26: FlakyQuarantineIntervention.execute treats content that cannot be
\* fetched as empty: whether the file is missing, not base64 or the fetch
\* fails, the pull request is opened, the notice sent and a result returned.
\* ----------------------------------------------------------------------
C26_UnfetchableContentIsEmpty ==
    angel.pc = "raised" => angel.raised_at # "get_file_content"

\* ----------------------------------------------------------------------
\* C27: nothing prevents repeated interventions: every checkup executes the
\* intervention again for a signal that persists, so n checkups in a row
\* open n documentation issues (n intervention passes n quarantine pull
\* requests) for the one signal, and no record of an intervention is
\* written or read.
\* ----------------------------------------------------------------------
\* the signals of the pass that an intervention addresses and that name the
\* same file or test as signal i
Alike(i) ==
    {j \in PassSignals :
       /\ angel.health.signals[j].dimension = angel.health.signals[i].dimension
       /\ angel.health.signals[j].evidence = angel.health.signals[i].evidence
       /\ \E k \in 1..Len(interventions) :
            can_address(interventions[k], angel.health.signals[j])
       /\ angel.health.signals[j].severity >= 50}

C27_InterventionsRepeatEveryCheckup ==
    /\ redis = <<>>
    /\ angel.pc = "returned" =>
         \A i \in PassSignals :
            LET signal == angel.health.signals[i]
            IN  /\ (signal.dimension = "knowledge" /\ signal.severity >= 50) =>
                     /\ \E d \in 1..Len(angel.docs) :
                          /\ angel.docs[d].checkup = angel.started
                          /\ angel.docs[d].title = "Document: " \o signal.evidence.file
                     /\ angel.completed = angel.started =>
                          Cardinality({d \in 1..Len(angel.docs) :
                                         angel.docs[d].title =
                                           "Document: " \o signal.evidence.file})
                            = angel.completed * Cardinality(Alike(i))
                /\ (signal.dimension = "flakiness" /\ signal.severity > 70) =>
                     /\ \E p \in 1..Len(angel.prs) : angel.prs[p].checkup = angel.started
                     /\ angel.completed = angel.started =>
                          Cardinality({p \in 1..Len(angel.prs) :
                                         angel.prs[p].title =
                                           "Auto-quarantine flaky test: "
                                             \o signal.evidence.test_name})
                            = angel.completed * Cardinality(Alike(i))

\* two checkups in a row have returned and the file has two issues
C27_Witness ==
    /\ angel.pc = "returned"
    /\ angel.entry = "perform_checkup"
    /\ angel.completed = 2
    /\ Len(angel.docs) = 2
    /\ angel.docs[1].title = angel.docs[2].title

\* ----------------------------------------------------------------------
\* C30: prophecies come from signals only: there are at most as many as
\* signals; a flakiness signal yields a 7-day prophecy exactly when its
\* severity is above 0.7, a duration signal a 30-day one exactly when its
\* severity is above 0.5, a knowledge-silo signal none.
\* ----------------------------------------------------------------------
ProphesiedFrom(signals, prophecies) ==
    /\ Len(prophecies) <= Len(signals)
    /\ \A p \in 1..Len(prophecies) : prophecies[p].timeframe \in {7, 30}
    /\ Cardinality({p \in 1..Len(prophecies) : prophecies[p].timeframe = 7})
         = Cardinality({i \in 1..Len(signals) :
                          signals[i].dimension = "flakiness" /\ signals[i].severity > 70})
    /\ Cardinality({p \in 1..Len(prophecies) : prophecies[p].timeframe = 30})
         = Cardinality({i \in 1..Len(signals) :
                          signals[i].dimension = "duration" /\ signals[i].severity > 50})

C30_PropheciesOnlyFromSignals ==
    /\ (angel.pc = "returned" /\ angel.entry = "perform_checkup") =>
         ProphesiedFrom(angel.health.signals, angel.health.prophecies)
    /\ (calc.fn = "divine" /\ calc.done /\ ~calc.raised) =>
         ProphesiedFrom(calc.signals, calc.prophecies)

\* a checkup has returned a health with a duration signal of severity 1.0,
\* its 30-day prophecy, and a knowledge-silo signal without one
C30_Witness ==
    /\ angel.pc = "returned"
    /\ angel.entry = "perform_checkup"
    /\ Len(angel.health.signals) = 2
    /\ angel.health.signals[1].dimension = "duration"
    /\ angel.health.signals[1].severity = 100
    /\ angel.health.signals[2].dimension = "knowledge"
    /\ angel.health.prophecies = <<Prophecy(60, 30)>>

\* ----------------------------------------------------------------------
\* C28: _get_installation_token caches tokens per (owner, repo) with an
\* expiry: a call never returns a cached token whose expiry is at or before
\* the time of the call but mints and caches a fresh one, and a token
\* cached for one (owner, repo) is never returned for another.
\* ----------------------------------------------------------------------
\* the earlier calls that minted the token still cached under the key of
\* call n when call n was made
LiveMints(n) ==
    {m \in 1..(n - 1) :
       /\ calc.calls[m].minted
       /\ calc.calls[m].key = calc.calls[n].key
       /\ calc.calls[m].expiry > calc.calls[n].at
       /\ \A l \in (m + 1)..(n - 1) :
             calc.calls[l].key = calc.calls[n].key => ~calc.calls[l].minted}

C28_TokenCachedPerRepoUntilExpiry ==
    calc.fn = "_get_installation_token" =>
        /\ \A n \in 1..Len(calc.calls) :
             LET call == calc.calls[n]
             IN  /\ call.expiry > call.at
                 /\ call.minted <=> LiveMints(n) = {}
                 /\ call.minted => call.expiry = call.at + TokenLifetime
                 /\ ~call.minted =>
                      \E m \in LiveMints(n) :
                         /\ calc.calls[m].token = call.token
                         /\ calc.calls[m].expiry = call.expiry
        /\ \A key \in DOMAIN calc.installation_tokens :
             \E n \in 1..Len(calc.calls) :
                /\ calc.calls[n].minted
                /\ calc.calls[n].key = key
                /\ calc.calls[n].expiry = calc.installation_tokens[key].expiry

\* a token minted at 0 for acme/api; a second before its expiry a call for
\* acme/web mints its own and a call for acme/api gets the cached one; at
\* the expiry a call for acme/api mints a fresh one
C28_Witness ==
    /\ calc.fn = "_get_installation_token"
    /\ Len(calc.calls) = 4
    /\ calc.calls[1] = [key |-> <<"acme", "api">>, at |-> 0, token |-> "ghs_...",
                        minted |-> TRUE, expiry |-> TokenLifetime]
    /\ calc.calls[2].key = <<"acme", "web">>
    /\ calc.calls[2].at = TokenLifetime - 1
    /\ calc.calls[2].minted
    /\ calc.calls[3] = [key |-> <<"acme", "api">>, at |-> TokenLifetime - 1,
                        token |-> "ghs_...", minted |-> FALSE, expiry |-> TokenLifetime]
    /\ calc.calls[4] = [key |-> <<"acme", "api">>, at |-> TokenLifetime,
                        token |-> "ghs_...", minted |-> TRUE, expiry |-> 2 * TokenLifetime]

\* ----------------------------------------------------------------------
\* C31: end-to-end replay. After a workflow_run.completed request for a
\* failing run has created its issue, the identical request is served again.
\* ----------------------------------------------------------------------
\* request e is a replay of request d: the same body, event and signature,
\* both handed to the handler, d received before e
Replays(e, d) ==
    /\ d < e
    /\ Served(d) /\ Served(e)
    /\ inv[e].request = inv[d].request
    /\ Delivered(d) /\ Delivered(e)
    /\ is_failure(RunOf(d))

\* C31 (code bug): the replay updates the issue the first delivery created
\* (a write addressed to that issue) and creates no duplicate. The replay
\* arrives after the first request has been answered, with "processed" or,
\* when a call after the issue write raised, with an error.
\* A first delivery that completed has written the ledger entry and the
\* replay is skipped at is_processed without a write to the issue; a first
\* delivery that raised after its POST has not, and the replay searches the
\* 16-character hash, misses the title that quotes 8 characters and POSTs a
\* second issue.
C31_ReplayUpdatesSameIssue ==
    \A d, e \in Slots :
        (/\ Replays(e, d)
         /\ d \in inv[e].after \cup inv[e].failed
         /\ Returned(d, {"POST"}) # {}
         /\ inv[e].pc = "done") =>
            /\ \E w \in Returned(e, {"PATCH"}) : inv[e].trace[w].num = inv[d].issue_number
            /\ Returned(e, {"POST"}) = {}

\* ----------------------------------------------------------------------
\* C34: remediation is gated. Strategies are consulted (can_remediate,
\* generate_fix) only when autofix_enabled is true and the failing run has
\* a logs URL, otherwise no strategy is called; and the ledger entry
\* written by mark_processed has remediation = true exactly when some
\* strategy returned a fix with a confidence at or above the threshold.
\* ----------------------------------------------------------------------
\* invocation d may consult strategies
Gated(d) == config.autofix_enabled /\ RunOf(d).logs_url # "None"

\* a strategy answered invocation d with a fix at or above the threshold
ConfidentFix(d) ==
    \E k \in 1..Len(inv[d].answers) :
        /\ inv[d].answers[k].can
        /\ inv[d].answers[k].confidence >= autofix_confidence_threshold

C34_RemediationGated ==
    /\ [](\A d \in Slots :
            Delivered(d) =>
                /\ Attempted(d, StrategyCalls) # {} => Gated(d)
                /\ ~Gated(d) => inv[d].answers = <<>> /\ ~inv[d].remediation
                /\ (Gated(d) /\ Attempted(d, {"mark_processed"}) # {} /\ is_failure(RunOf(d))) =>
                      /\ inv[d].answers # <<>>
                      /\ inv[d].answers[1].strategy = 1
                      /\ remediations[1] \notin ModuleStrategies =>
                            \E i \in Attempted(d, StrategyCalls) :
                                inv[d].trace[i] = Call("can_remediate", 1, TRUE))
    /\ [][\A d \in Slots :
             (inv[d].pc = "mark_processed" /\ inv'[d].pc = "done") =>
                 LET entry == redis'[OpKey(OperationId(inv[d].payload))]
                 IN  /\ entry.action = "triaged"
                     /\ entry.remediation <=> ConfidentFix(d)
       ]_vars

\* with autofix enabled, the failing run with logs got a fix at the
\* threshold and is recorded with a remediation, the failing run without
\* logs was recorded without one and no strategy was called for it
C34_Witness ==
    \E d, e \in Slots :
        /\ config.autofix_enabled
        /\ inv[d].payload = RunId("acme", "api", 1)
        /\ inv[d].pc = "done"
        /\ Attempted(d, {"generate_fix"}) # {}
        /\ redis[OpKey(OperationId(inv[d].payload))].remediation
        /\ inv[e].payload = RunId("acme", "api", 2)
        /\ inv[e].pc = "done"
        /\ inv[e].outcome = "triaged"
        /\ Attempted(e, StrategyCalls) = {}
        /\ ~redis[OpKey(OperationId(inv[e].payload))].remediation

\* ----------------------------------------------------------------------
\* C35: in perform_checkup no intervention is executed before every oracle
\* has finished emitting its signals and the health score has been
\* computed; the intervention pass runs once per checkup over the complete
\* signal list, and the health is returned only after the pass is over.
\* ----------------------------------------------------------------------
\* the positions of the checkup's record with one of these steps
StepsOf(ops) == {n \in 1..Len(angel.trace) : angel.trace[n].op \in ops}

InterventionOps == {"can_address", "execute", "quarantine", "knowledge_request"}

C35_InterveneAfterAllOraclesThenReturn ==
    (angel.pc # "none" /\ angel.entry = "perform_checkup") =>
        /\ \A n \in StepsOf({"divine"}) : n <= Len(oracles) /\ angel.trace[n].by = oracles[n]
        /\ \A n \in StepsOf({"score"}) : n = Len(oracles) + 1
        /\ \A n \in StepsOf(InterventionOps \cup {"return"}) :
              /\ StepsOf({"divine"}) = 1..Len(oracles)
              /\ Len(oracles) + 1 \in StepsOf({"score"})
              /\ n > Len(oracles) + 1
              /\ angel.health.signals = angel.signals
              /\ angel.health.overall_score = calculate_health_score(angel.signals)
        /\ \A n \in StepsOf({"return"}) : n = Len(angel.trace)
        /\ \A n, m \in StepsOf(InterventionOps) :
              n < m => angel.trace[n].signal <= angel.trace[m].signal
        /\ angel.pc \in {"get_file_content", "create_pr", "send_channel", "create_issue"} =>
              StepsOf({"score"}) # {} /\ StepsOf({"return"}) = {}
        /\ angel.pc = "returned" =>
              /\ StepsOf({"return"}) = {Len(angel.trace)}
              /\ angel.idx = Len(angel.health.signals) + 1
              /\ \A i \in PassSignals :
                    LET signal == angel.health.signals[i]
                        claimed == signal.severity >= 50 /\
                                   \E k \in 1..Len(interventions) :
                                       can_address(interventions[k], signal)
                    IN  /\ Cardinality(StepsFor(i, {"execute"})) = (IF claimed THEN 1 ELSE 0)
                        /\ Cardinality(StepsFor(i, {"quarantine", "knowledge_request"}))
                             = (IF claimed THEN 1 ELSE 0)

\* a checkup has returned: the three oracles were run, the health was
\* scored, then the duration signal was declined by both interventions,
\* the silo signal got its issue, and the return came last
C35_Witness ==
    /\ angel.pc = "returned"
    /\ angel.entry = "perform_checkup"
    /\ Len(angel.health.signals) = 2
    /\ Len(angel.trace) = 11
    /\ angel.trace[3] = Step("divine", 0, "KnowledgeSiloOracle", TRUE)
    /\ angel.trace[4] = Step("score", 0, "", TRUE)
    /\ angel.trace[10] = Step("knowledge_request", 2, "KnowledgeSharingIntervention", TRUE)
    /\ angel.trace[11] = Step("return", 0, "", TRUE)

\* ----------------------------------------------------------------------
\* C36: concurrent deduplication by fingerprint. When two deliveries for
\* distinct failing runs of one repository with the same fingerprint are
\* handled concurrently, at most one issue is created for the fingerprint
\* under every interleaving of find_existing_issue and the issue POST.
\* ----------------------------------------------------------------------
\* invocations d and e handle distinct failing runs of one repository with
\* one fingerprint, and neither was entered after the other had returned
SameSignatureConcurrently(d, e) ==
    /\ d # e
    /\ Delivered(d) /\ Delivered(e)
    /\ inv[d].payload # inv[e].payload
    /\ RepoOf(d) = RepoOf(e)
    /\ is_failure(RunOf(d)) /\ is_failure(RunOf(e))
    /\ FingerprintHash(FpOf(d)) = FingerprintHash(FpOf(e))
    /\ inv[d].pc # "error" /\ inv[e].pc # "error"
    /\ d \notin inv[e].after /\ e \notin inv[d].after

C36_ConcurrentDeduplication ==
    \A d, e \in Slots :
        SameSignatureConcurrently(d, e) =>
            Cardinality(Returned(d, {"POST"})) + Cardinality(Returned(e, {"POST"})) <= 1

\* ----------------------------------------------------------------------
\* C37: search and title agree. An open issue the handler created for
\* fingerprint hash h is matched by every later find_existing_issue call
\* for h in the same repository: the title written contains the term the
\* search looks for.
\* ----------------------------------------------------------------------
C37_SearchFindsCreatedIssue ==
    /\ \A c \in {s \in Slots : Delivered(s)} : \A n \in CreatedBy(c) :
          issues[RepoOf(c)][n].state = "open" =>
              n \in SearchIssues(issues, inv[c].payload.owner, inv[c].payload.repo,
                                 FingerprintHash(FpOf(c)))
    /\ \A e \in Slots : \A c \in inv[e].after :
          (/\ CreatedBy(c) # {}
           /\ Delivered(e)
           /\ RepoOf(e) = RepoOf(c)
           /\ FingerprintHash(FpOf(e)) = FingerprintHash(FpOf(c))
           /\ Returned(e, {"find_existing_issue"}) # {}) =>
              FoundBy(e) # 0

\* ----------------------------------------------------------------------
\* C40: DurationOracle.divine completes without raising for every history
\* with at least 10 non-negative durations, also when the earliest 5 are
\* all zero and the recent mean is positive.
\* ----------------------------------------------------------------------
C40_DurationOracleNeverRaises ==
    (Divined("DurationOracle") /\ Len(WindowDurations) >= 10) => ~calc.raised

\* ----------------------------------------------------------------------
\* C38: ledger implies link. In every reachable state, if the ledger holds
\* an entry with action "triaged" and issue number n for a run, then the
\* invocation that wrote it had written the fingerprint link of the run's
\* (owner, repo, fingerprint hash) with value n before, and had written the
\* issue before that; no run is recorded as triaged without an issue write
\* and a link write.
\* ----------------------------------------------------------------------
\* invocation d wrote issue n, then the link with n, then the ledger entry
WroteIssueLinkLedger(d, n) ==
    \E w \in Returned(d, GitHubWriteCalls), l \in Returned(d, {"link_fingerprint_to_issue"}),
       m \in Returned(d, {"mark_processed"}) :
        /\ w < l /\ l < m
        /\ inv[d].trace[w].num = n
        /\ inv[d].trace[l].num = n

C38_LedgerImpliesLink ==
    \A rid \in KnownRuns :
        LET key == OpKey(OperationId(rid))
            fp_key == FpKey(rid.owner, rid.repo, FingerprintHash(fingerprint(GitHubRun(rid))))
        IN  (key \in DOMAIN redis /\ redis[key].action = "triaged") =>
                /\ \E d \in Slots : /\ inv[d].payload = rid
                                    /\ WroteIssueLinkLedger(d, redis[key].issue_number)
                /\ fp_key \in DOMAIN redis
                /\ redis[key].issue_number \in
                     1..Len(issues[RepoName(rid.owner, rid.repo)])

\* both invocations have recorded their runs of one signature as triaged;
\* the later one has overwritten the link with the number of its own issue
C38_Witness ==
    \E d, e \in Slots :
        /\ inv[d].payload = RunId("acme", "api", 1)
        /\ inv[e].payload = RunId("acme", "api", 2)
        /\ inv[d].pc = "done" /\ inv[e].pc = "done"
        /\ redis[OpKey(OperationId(inv[d].payload))].action = "triaged"
        /\ redis[OpKey(OperationId(inv[e].payload))].action = "triaged"
        /\ redis[OpKey(OperationId(inv[d].payload))].issue_number
             # redis[OpKey(OperationId(inv[e].payload))].issue_number
        /\ get_issue_for_fingerprint(redis, "acme", "api", FingerprintHash(FpOf(e)))
             = inv[e].issue_number

\* ----------------------------------------------------------------------
\* C39: repository isolation. Handling a failing run of repository A never
\* creates or updates an issue in another repository B and never reads or
\* writes B's fingerprint link or ledger entries, even when both have
\* failures with identical fingerprint hashes and identical run ids.
\* ----------------------------------------------------------------------
\* the store keys of a run: its ledger entry and its fingerprint link,
\* spelled out with owner and repository
LedgerKeyOf(rid) ==
    "op:run:" \o rid.owner \o "/" \o rid.repo \o "#" \o ToString(rid.run_id)

LinkKeyOf(rid) ==
    "fp:" \o rid.owner \o "/" \o rid.repo \o ":" \o FingerprintHash(fingerprint(GitHubRun(rid)))

\* the store keys whose value differs between the two stores
KeysChanged(before, after) ==
    {key \in DOMAIN before \cup DOMAIN after :
        \/ key \notin DOMAIN before
        \/ key \notin DOMAIN after
        \/ before[key] # after[key]}

C39_RepositoryIsolation ==
    [][\A d \in Slots :
         (InFlight(d) /\ inv'[d] # inv[d]) =>
            LET rid == inv[d].payload
                step == inv'[d].trace[Len(inv'[d].trace)]
            IN  /\ \A r \in Repos \ {RepoName(rid.owner, rid.repo)} : issues'[r] = issues[r]
                /\ KeysChanged(redis, redis') \subseteq {LedgerKeyOf(rid), LinkKeyOf(rid)}
                /\ (step.call = "is_processed" /\ step.ok) =>
                      (step.num = 1 <=> LedgerKeyOf(rid) \in DOMAIN redis)
                /\ (step.call = "find_existing_issue" /\ step.num # 0) =>
                      /\ step.num \in 1..Len(issues[RepoName(rid.owner, rid.repo)])
                      /\ Contains(issues[RepoName(rid.owner, rid.repo)][step.num].title,
                                  FingerprintHash(fingerprint(GitHubRun(rid))))
                /\ (step.call \in GitHubWriteCalls /\ step.ok) =>
                      /\ step.num \in 1..Len(issues'[RepoName(rid.owner, rid.repo)])
                      /\ issues'[RepoName(rid.owner, rid.repo)][step.num].title
                           = IssueTitle(GitHubRun(rid),
                                        FingerprintHash(fingerprint(GitHubRun(rid))))
    ]_vars

\* run 1 of acme/api and run 1 of acme/web, which share the run id and the
\* fingerprint hash, have both been handled: each repository has its own
\* issue, ledger entry and link
C39_Witness ==
    \E d, e \in Slots :
        /\ inv[d].payload = RunId("acme", "api", 1)
        /\ inv[e].payload = RunId("acme", "web", 1)
        /\ inv[d].pc = "done" /\ inv[e].pc = "done"
        /\ inv[d].outcome = "triaged" /\ inv[e].outcome = "triaged"
        /\ Len(issues["acme/web"]) = 1
        /\ issues["acme/web"][1].by = e
        /\ \A n \in 1..Len(issues["acme/api"]) : issues["acme/api"][n].by \in {0, d}
        /\ {LedgerKeyOf(inv[d].payload), LedgerKeyOf(inv[e].payload),
            LinkKeyOf(inv[d].payload), LinkKeyOf(inv[e].payload)} \subseteq DOMAIN redis

\* ----------------------------------------------------------------------
\* C32: generate_curriculum emits exactly one learning module per distinct
\* root-cause label among the retrieved failures, failures without a label
\* falling into one "unknown" cluster; the cluster sizes sum to the number
\* of retrieved failures, each module has min(3, cluster size) exercises
\* taken from the cluster's first failures, and its estimated hours are 0.5
\* times the cluster size.
\* ----------------------------------------------------------------------
\* the label of the n-th retrieved failure
LabelOf(n) ==
    IF "root_cause" \in DOMAIN calc.failures[n] THEN calc.failures[n].root_cause ELSE "unknown"

\* the positions of the retrieved failures with this label
Labelled(label) == {n \in 1..Len(calc.failures) : LabelOf(n) = label}

\* the k-th smallest member of a set of positions
Nth(positions, k) ==
    CHOOSE n \in positions : Cardinality({m \in positions : m < n}) = k - 1

\* the size of the cluster a module was made from, as its description says
SizeOf(module) ==
    CHOOSE s \in 0..Len(calc.failures) :
        module.description = "Based on " \o ToString(s) \o " recent incidents"

RECURSIVE SumOfSizes(_)
SumOfSizes(modules) ==
    IF modules = <<>> THEN 0
    ELSE SizeOf(modules[1]) + SumOfSizes(SubSeq(modules, 2, Len(modules)))

C32_OneModulePerRootCause ==
    (calc.fn = "generate_curriculum" /\ calc.done) =>
        LET labels == {LabelOf(n) : n \in 1..Len(calc.failures)}
            modules == calc.modules
        IN  /\ Len(modules) = Cardinality(labels)
            /\ {modules[i].title : i \in 1..Len(modules)}
                 = {"Mastering " \o label : label \in labels}
            /\ SumOfSizes(modules) = Len(calc.failures)
            /\ \A i \in 1..Len(modules) :
                  \E label \in labels :
                     LET members == Labelled(label)
                         size == Cardinality(members)
                     IN  /\ modules[i].title = "Mastering " \o label
                         /\ SizeOf(modules[i]) = size
                         /\ Len(modules[i].exercises) = (IF size < 3 THEN size ELSE 3)
                         /\ \A k \in 1..Len(modules[i].exercises) :
                               LET f == calc.failures[Nth(members, k)]
                               IN  modules[i].exercises[k] =
                                     "Reproduce and fix: " \o
                                        (IF "title" \in DOMAIN f THEN f.title
                                         ELSE "unknown failure")
                         /\ 2 * modules[i].estimated_hours = 10 * size

\* four failures were retrieved: three without a root cause and one
\* labelled "unknown" between them make one module of four with the first
\* three as exercises and two hours
C32_Witness ==
    /\ calc.fn = "generate_curriculum"
    /\ calc.done
    /\ calc.failures = <<[title |-> "build"], [root_cause |-> "unknown", title |-> "deploy"],
                         [id |-> 7], [title |-> "deploy"]>>
    /\ calc.modules = <<[title |-> "Mastering unknown",
                         description |-> "Based on 4 recent incidents",
                         exercises |-> <<"Reproduce and fix: build",
                                         "Reproduce and fix: deploy",
                                         "Reproduce and fix: unknown failure">>,
                         estimated_hours |-> 20]>>

\* ----------------------------------------------------------------------
\* C33: BacklogItem.wsjf equals cost_of_delay / job_size whenever job_size
\* is positive and 0.0 whenever it is zero or negative; reading it never
\* raises a division-by-zero error, whatever the two integers.
\* ----------------------------------------------------------------------
C33_WsjfQuotientOrZero ==
    (calc.fn = "wsjf" /\ calc.done) =>
        /\ ~calc.result.raised
        /\ calc.result.den > 0
        /\ calc.job_size > 0 =>
              calc.result.num * calc.job_size = calc.cost_of_delay * calc.result.den
        /\ calc.job_size <= 0 => calc.result.num = 0

\* wsjf has been read on an item with cost of delay 10 and job size 0: it is
\* 0.0 and nothing was raised
C33_Witness ==
    /\ calc.fn = "wsjf"
    /\ calc.done
    /\ calc.cost_of_delay = 10
    /\ calc.job_size = 0
    /\ calc.result = [raised |-> FALSE, num |-> 0, den |-> 1]

====
